---- MODULE Spec2Model ----
(***************************************************************************)
(* State-machine model of src/blockchain_verification.py: the hash-chained *)
(* proof-of-work ledger (_simple_blockchain_data and the functions around  *)
(* it) and the bookkeeping of the smart-contract registry.                 *)
(*                                                                         *)
(* Modelling conventions                                                   *)
(*  - A Python dict is a TLA+ record/function; a missing key is a missing  *)
(*    element of its DOMAIN (the genesis block has no "nonce").            *)
(*  - A Python str used as text is a sequence of tokens; NotSubscriptable  *)
(*    stands for a value such as 42 or None on which x[:n] raises.         *)
(*  - time.time() is the clock `now`, counted in ticks of 1/TicksPerSec s. *)
(*  - A SHA-256 hex digest is [kind, lead, pre]: `lead` is the value of    *)
(*    its first `difficulty` hex characters and `pre` the hashed text      *)
(*    (the digest is collision free).                                      *)
(***************************************************************************)
EXTENDS Integers, Sequences, FiniteSets, TLC

VARIABLES
    chain,      \* _simple_blockchain_data
    now,        \* time.time(), in ticks
    scb,        \* _smart_contract_blockchain (None until first use)
    ret,        \* what the last completed call returned
    issued,     \* history: the successful appends since the last reset
    tampered,   \* history: the out-of-band change made to a sealed block
    resetPc,    \* position inside reset_blockchain_for_testing
    thr         \* the callers running _add_block_to_simple_chain step by step

vars == <<chain, now, scb, ret, issued, tampered, resetPc, thr>>

\* ------------------------------------------------------------------ bounds
MaxLen == 3
MaxTime == 2
TicksPerSec == 2
MaxExec == 1
NumThreads == 2
MiningBound == 8
MaxCalls == 2
MaxExecTicks == 1
MaxPercent == 100
MaxHistory == 6
MaxCerts == 5
MaxClaimTokens == 4
MaxVerifications == 100
MaxDisclosed == 8

\* ------------------------------------------------------- program constants
difficulty == 2
GenesisLead == 70
ClaimLimit == 1000
EvidenceLimit == 500
ContentLimit == 1000
EnvClaimsLimit == 10

LeadSpace == 16 ^ difficulty

None == [none |-> TRUE]
NotSubscriptable == <<"<not a str>">>
EmptyDict == [k \in {} |-> 0]

Min(a, b) == IF a < b THEN a ELSE b

\* dict.get(key, default)
Get(d, k, default) == IF k \in DOMAIN d THEN d[k] ELSE default

\* s[:n]
Take(s, n) == SubSeq(s, 1, Min(Len(s), n))

\* int(timestamp)
IntOf(ts) == ts \div TicksPerSec

DigitChar(d) ==
    CASE d = 0 -> "0" [] d = 1 -> "1" [] d = 2 -> "2" [] d = 3 -> "3"
      [] d = 4 -> "4" [] d = 5 -> "5" [] d = 6 -> "6" [] d = 7 -> "7"
      [] d = 8 -> "8" [] d = 9 -> "9"

RECURSIVE Dec(_)
\* str(n) of a non-negative int, as a sequence of characters
Dec(n) == IF n < 10 THEN <<DigitChar(n)>>
          ELSE Dec(n \div 10) \o <<DigitChar(n % 10)>>

\* variant of BlockIdOf that leaves the index out of the id
BlockIdNoIndex(index, ts) == <<"BLOCK", "_">> \o Dec(IntOf(ts))

\* f"BLOCK_{index}_{int(timestamp)}"
BlockIdOf(index, ts) == <<"BLOCK", "_">> \o Dec(index) \o <<"_">> \o Dec(IntOf(ts))

\* a failure id in the format of the block ids
ErrorIdAsBlockId(ts) == BlockIdOf(0, ts)

\* f"ERROR_{int(time.time())}"
ErrorIdOf(ts) == <<"ERROR", "_">> \o Dec(IntOf(ts))

\* ------------------------------------------------------------- hash model
StrZero == [kind |-> "literal", text |-> "0"]

LeadOfHash(h) == IF h.kind = "digest" THEN h.lead ELSE 0

\* numeric content of a payload, mixed into the digest
DataWeight(data) ==
    Cardinality(DOMAIN data)
    + Get(data, "timestamp", 0) * 3
    + Get(data, "verification_score", 0)
    + Get(data, "claims_count", 0) * 5
    + Len(Get(data, "claim", <<>>)) * 7
    + Len(Get(data, "content", <<>>)) * 13

\* everything of the serialized block but its nonce, mixed
MixBase(c) ==
    DataWeight(c.data) * 7 + c.index * 59 + c.timestamp * 101
       + LeadOfHash(c.previous_hash) * 37 + 11

\* the digest's leading characters change with every nonce
LeadWith(base, nonce) == (base + nonce * 5) % LeadSpace

\* first `difficulty` hex characters of sha256(json.dumps(c, sort_keys=True))
LeadOf(c) == LeadWith(MixBase(c), Get(c, "nonce", 0))

\* block_copy = block.copy(); block_copy.pop("hash"); json.dumps(sort_keys)
Canonical(b) == [k \in (DOMAIN b) \ {"hash"} |-> b[k]]

Sha256Json(c) == [kind |-> "digest", lead |-> LeadOf(c), pre |-> c]

Sha256Text(t) == [kind |-> "digest", lead |-> GenesisLead, pre |-> [text |-> t]]

\* block_hash.startswith("0" * difficulty)
StartsWithTarget(h) == h.kind = "digest" /\ h.lead = 0

\* ------------------------------------------------------------------ ledger
GenesisBlock(t) ==
    [index |-> 0,
     timestamp |-> t,
     data |-> [type |-> "genesis",
               message |-> "GreenGuard Blockchain Genesis Block",
               timestamp |-> t,
               version |-> "2.0_with_smart_contracts"],
     previous_hash |-> StrZero,
     hash |-> Sha256Text("greenguard_genesis_block")]

\* variant of InitializeSimpleBlockchain without the `if not` guard
InitializeAlways(c, t) == <<GenesisBlock(t)>>

\* _initialize_simple_blockchain
InitializeSimpleBlockchain(c, t) ==
    IF c = <<>> THEN <<GenesisBlock(t)>> ELSE c

\* the nonces, from the candidate's upward, whose digest meets the target
\* (one full period of the digest's leading characters is enough to look at)
WinningNonces(b) ==
    LET base == MixBase(b)
    IN {n \in b.nonce..(b.nonce + LeadSpace - 1) : LeadWith(base, n) = 0}

\* variant of MineFrom that stores the digest computed before the search
MineFromStaleHash(b) ==
    LET n == CHOOSE w \in WinningNonces(b) : \A x \in WinningNonces(b) : w <= x
    IN [k \in DOMAIN b \cup {"hash"} |->
           IF k = "hash" THEN Sha256Json(b)
           ELSE IF k = "nonce" THEN n ELSE b[k]]

\* the while True loop of _add_block_to_simple_chain: nonce += 1 until the
\* digest starts with the target, then block_data["hash"] = block_hash
MineFrom(b) ==
    LET n == CHOOSE w \in WinningNonces(b) : \A x \in WinningNonces(b) : w <= x
        sealed == [b EXCEPT !.nonce = n]
    IN [k \in DOMAIN b \cup {"hash"} |->
           IF k = "hash" THEN Sha256Json(sealed) ELSE sealed[k]]

\* variant of Candidate that links every block to the first one
CandidateLinkedToGenesis(c, data, t) ==
    [index |-> Len(c),
     timestamp |-> t,
     data |-> data,
     previous_hash |-> c[1].hash,
     nonce |-> 0]

\* block_data of _add_block_to_simple_chain, before the search
Candidate(c, data, t) ==
    [index |-> Len(c),
     timestamp |-> t,
     data |-> data,
     previous_hash |-> c[Len(c)].hash,
     nonce |-> 0]

\* _add_block_to_simple_chain: the ledger after the call
AddBlockToSimpleChain(c, data, t) ==
    LET c1 == InitializeSimpleBlockchain(c, t)
    IN Append(c1, MineFrom(Candidate(c1, data, t)))

\* variant of AddBlockId that reads the length before an empty ledger is seeded
AddBlockIdBeforeSeed(c, data, t) == BlockIdOf(Len(c), t)

\* _add_block_to_simple_chain: the returned block id
AddBlockId(c, data, t) ==
    BlockIdOf(Len(InitializeSimpleBlockchain(c, t)), t)

\* variant of ValidateBlockchainIntegrity that skips the hash recomputation
ValidateLinkageOnly(c) ==
    IF Len(c) <= 1 THEN TRUE
    ELSE \A i \in 2..Len(c) :
            Get(c[i], "previous_hash", None) = Get(c[i - 1], "hash", None)

\* _validate_blockchain_integrity
ValidateBlockchainIntegrity(c) ==
    IF Len(c) <= 1 THEN TRUE
    ELSE \A i \in 2..Len(c) :
            /\ Get(c[i], "previous_hash", None) = Get(c[i - 1], "hash", None)
            /\ Get(c[i], "hash", StrZero) = Sha256Json(Canonical(c[i]))

\* get_blockchain_block_by_id: first block whose id string matches
GetBlockById(c, id) ==
    LET hits == {i \in 1..Len(c) : BlockIdOf(c[i].index, Get(c[i], "timestamp", 0)) = id}
    IN IF hits = {} THEN None
       ELSE c[CHOOSE i \in hits : \A j \in hits : i <= j]

\* get_company_verification_history: the matching entries, newest first
RECURSIVE InsertDesc(_, _)
InsertDesc(sorted, e) ==
    IF sorted = <<>> THEN <<e>>
    ELSE IF Head(sorted).timestamp < e.timestamp
         THEN <<e>> \o sorted
         ELSE <<Head(sorted)>> \o InsertDesc(Tail(sorted), e)

RECURSIVE SortedDesc(_)
\* sorted(company_blocks, key=timestamp, reverse=True)
SortedDesc(s) ==
    IF s = <<>> THEN <<>>
    ELSE InsertDesc(SortedDesc(SubSeq(s, 1, Len(s) - 1)), s[Len(s)])

\* str.lower() on the company names that occur
Lower(s) ==
    CASE s = "Acme" -> "acme"
      [] s = "Unknown" -> "unknown"
      [] s = "Totally" -> "totally"
      [] s = "Green" -> "green"
      [] OTHER -> s

RECURSIVE CompanyBlocks(_, _, _)
CompanyBlocks(c, name, i) ==
    IF i > Len(c) THEN <<>>
    ELSE LET d == Get(c[i], "data", EmptyDict)
             rest == CompanyBlocks(c, name, i + 1)
         IN IF Get(d, "type", "") = "verification"
               /\ Lower(Get(d, "company_name", "")) = Lower(name)
            THEN <<[timestamp |-> Get(d, "timestamp", 0),
                    verification_score |-> Get(d, "verification_score", 0),
                    block_index |-> Get(c[i], "index", 0)]>> \o rest
            ELSE rest

GetCompanyVerificationHistory(c, name) == SortedDesc(CompanyBlocks(c, name, 1))

\* ------------------------------------------------------------- payloads
\* block_data of add_verification_to_blockchain
VerificationBlockData(v, t) ==
    [type |-> "verification",
     company_name |-> Get(v, "company_name", "Unknown"),
     claim |-> Take(Get(v, "claim", <<>>), ClaimLimit),
     verification_score |-> Get(v, "verification_score", 0),
     status |-> Get(v, "status", "unknown"),
     risk_level |-> Get(v, "risk_level", "unknown"),
     evidence_summary |-> Take(Get(v, "evidence_summary", <<>>), EvidenceLimit),
     user_email |-> Get(v, "user_email", "anonymous"),
     client_ip |-> Get(v, "client_ip", "unknown"),
     timestamp |-> t,
     version |-> Get(v, "version", "2.0_with_smart_contracts"),
     smart_contracts_executed |-> Get(v, "smart_contracts_executed", 0),
     automated_actions |-> Get(v, "automated_actions", <<>>)]

\* the slices of add_verification_to_blockchain raise on a non-str value
VerificationRaises(v) ==
    \/ Get(v, "claim", <<>>) = NotSubscriptable
    \/ Get(v, "evidence_summary", <<>>) = NotSubscriptable

\* a value json.dumps refuses (a set, a datetime), in a list-valued field
NotSerializable == <<"<not JSON serializable>">>

\* json.dumps(block_data, sort_keys=True) of _add_block_to_simple_chain raises
SealRaises(data) == Get(data, "automated_actions", <<>>) = NotSerializable

\* block_data of add_claim_analysis_to_blockchain
ClaimAnalysisBlockData(cd, t) ==
    [type |-> "claim_analysis",
     content |-> Take(Get(cd, "content", <<>>), ContentLimit),
     claims_count |-> Get(cd, "claims_count", 0),
     url |-> Get(cd, "url", ""),
     analysis_type |-> Get(cd, "analysis_type", "website"),
     environmental_claims |-> Take(Get(cd, "environmental_claims", <<>>), EnvClaimsLimit),
     user_email |-> Get(cd, "user_email", "anonymous"),
     client_ip |-> Get(cd, "client_ip", "unknown"),
     timestamp |-> t,
     processing_time |-> Get(cd, "processing_time", 0)]

ClaimAnalysisRaises(cd) ==
    \/ Get(cd, "content", <<>>) = NotSubscriptable
    \/ Get(cd, "environmental_claims", <<>>) = NotSubscriptable

\* records the callers hand to the ledger
VerificationInputs ==
    { [company_name |-> "Acme", claim |-> <<"net", "zero">>,
       verification_score |-> 85, status |-> "verified"],
      [company_name |-> "acme", claim |-> <<"green">>, verification_score |-> 15],
      [company_name |-> "Acme", claim |-> NotSubscriptable],
      [company_name |-> "Acme", claim |-> <<"green">>,
       automated_actions |-> NotSerializable] }

ClaimInputs ==
    { [content |-> <<"we", "care">>, claims_count |-> 1, url |-> "https://example.com"],
      [content |-> NotSubscriptable] }

\* ----------------------------------------------------- contract variants
\* An evaluator returns its result dict, or Raised(e) when the Python code
\* raises e.  BadNumber stands for a value such as "high" on which an
\* arithmetic comparison raises TypeError.
BadNumber == 0 - 999

Raised(e) == [raised |-> TRUE, error |-> e]

HasRaised(r) == "raised" \in DOMAIN r

Max(a, b) == IF a > b THEN a ELSE b

\* the whole list instead of its last n elements
WholeList(s, n) == s

\* s[-n:]
LastN(s, n) == SubSeq(s, Max(1, Len(s) - n + 1), Len(s))

RECURSIVE CountBelow(_, _, _, _)
\* len([h for h in s if h.get(key, default) < 40])
CountBelow(s, key, default, limit) ==
    IF s = <<>> THEN 0
    ELSE (IF Get(Head(s), key, default) < limit THEN 1 ELSE 0)
         + CountBelow(Tail(s), key, default, limit)

\* the detector with its tiers chosen by the score alone
GreenwashingIgnoringConfidence(inputs, context) ==
    LET score == Get(inputs, "verification_score", 0)
    IN [contract_type |-> "greenwashing_detector",
        company_name |-> Get(inputs, "company_name", "Unknown"),
        risk_assessment |-> IF score < 20 THEN "CRITICAL"
                            ELSE IF score < 40 THEN "HIGH"
                            ELSE IF score < 60 THEN "MODERATE"
                            ELSE "LOW",
        actions_triggered |->
            IF score < 20
            THEN <<"IMMEDIATE_FLAG", "COMMUNITY_ALERT", "REGULATORY_NOTIFICATION">>
            ELSE IF score < 40 THEN <<"HIGH_RISK_FLAG", "REQUIRE_EVIDENCE">>
            ELSE IF score < 60 THEN <<"MODERATE_RISK_FLAG", "REQUEST_CLARIFICATION">>
            ELSE <<"APPROVED">>,
        alerts_generated |-> <<>>,
        penalty_points |-> IF score < 20 THEN 100
                           ELSE IF score < 40 THEN 50
                           ELSE IF score < 60 THEN 25
                           ELSE 0,
        requires_human_review |-> score < 30,
        automated_response |-> TRUE]

\* GreenGuardSmartContract._greenwashing_detector_contract
GreenwashingDetectorContract(inputs, context) ==
    LET company_name == Get(inputs, "company_name", "Unknown")
        score == Get(inputs, "verification_score", 0)
        confidence == Get(inputs, "confidence", 0)
        tier == IF score < 20 /\ confidence > 80 THEN "CRITICAL"
                ELSE IF score < 40 /\ confidence > 60 THEN "HIGH RISK"
                ELSE IF score < 60 THEN "MODERATE RISK"
                ELSE "VERIFIED"
        actions == IF tier = "CRITICAL"
                   THEN <<"IMMEDIATE_FLAG", "COMMUNITY_ALERT", "REGULATORY_NOTIFICATION">>
                   ELSE IF tier = "HIGH RISK"
                   THEN <<"HIGH_RISK_FLAG", "REQUIRE_EVIDENCE">>
                   ELSE IF tier = "MODERATE RISK"
                   THEN <<"MODERATE_RISK_FLAG", "REQUEST_CLARIFICATION">>
                   ELSE <<"APPROVED">>
        penalties == IF tier = "CRITICAL" THEN 100
                     ELSE IF tier = "HIGH RISK" THEN 50
                     ELSE IF tier = "MODERATE RISK" THEN 25
                     ELSE 0
        company_history == Get(context, "company_history", <<>>)
        repeat == /\ Len(company_history) > 2
                  /\ CountBelow(LastN(company_history, 5),
                                "verification_score", 100, 40) >= 2
    IN IF score = BadNumber \/ (score < 40 /\ confidence = BadNumber)
       THEN Raised("TypeError")
       ELSE [contract_type |-> "greenwashing_detector",
             company_name |-> company_name,
             risk_assessment |-> IF score < 20 THEN "CRITICAL"
                                 ELSE IF score < 40 THEN "HIGH"
                                 ELSE IF score < 60 THEN "MODERATE"
                                 ELSE "LOW",
             actions_triggered |-> IF repeat
                                   THEN Append(actions, "REPEAT_OFFENDER_FLAG")
                                   ELSE actions,
             alerts_generated |-> IF repeat
                                  THEN <<<<tier, company_name>>,
                                         <<"REPEAT OFFENDER", company_name>>>>
                                  ELSE <<<<tier, company_name>>>>,
             penalty_points |-> IF repeat THEN penalties + 200 ELSE penalties,
             requires_human_review |-> score < 30,
             automated_response |-> TRUE]

\* the rewards with the certifications left out of the points
RewardsWithoutCertifications(inputs, context) ==
    LET score == Get(inputs, "verification_score", 0)
        transparency_level == Get(inputs, "transparency_level", 0)
        certifications == Get(inputs, "certifications", <<>>)
        total_points == score + transparency_level * 20
    IN [contract_type |-> "sustainability_rewards",
        company_name |-> Get(inputs, "company_name", "Unknown"),
        points_awarded |-> total_points,
        badge_earned |-> IF total_points >= 900 THEN "SUSTAINABILITY_CHAMPION"
                         ELSE IF total_points >= 700 THEN "SUSTAINABILITY_LEADER"
                         ELSE IF total_points >= 500 THEN "SUSTAINABILITY_ADVOCATE"
                         ELSE IF total_points >= 300 THEN "SUSTAINABILITY_BEGINNER"
                         ELSE "NO_BADGE",
        tier |-> IF total_points >= 900 THEN "PLATINUM"
                 ELSE IF total_points >= 700 THEN "GOLD"
                 ELSE IF total_points >= 500 THEN "SILVER"
                 ELSE IF total_points >= 300 THEN "BRONZE"
                 ELSE "NONE",
        special_rewards |-> <<>>,
        eligible_for_promotion |-> total_points >= 500,
        next_tier_requirement |-> 0]

\* GreenGuardSmartContract._sustainability_rewards_contract
SustainabilityRewardsContract(inputs, context) ==
    LET company_name == Get(inputs, "company_name", "Unknown")
        score == Get(inputs, "verification_score", 0)
        transparency_level == Get(inputs, "transparency_level", 0)
        certifications == Get(inputs, "certifications", <<>>)
        total_points == score + transparency_level * 20 + Len(certifications) * 50
        tier == IF total_points >= 900 THEN "PLATINUM"
                ELSE IF total_points >= 700 THEN "GOLD"
                ELSE IF total_points >= 500 THEN "SILVER"
                ELSE IF total_points >= 300 THEN "BRONZE"
                ELSE "NONE"
        badge == IF total_points >= 900 THEN "SUSTAINABILITY_CHAMPION"
                 ELSE IF total_points >= 700 THEN "SUSTAINABILITY_LEADER"
                 ELSE IF total_points >= 500 THEN "SUSTAINABILITY_ADVOCATE"
                 ELSE IF total_points >= 300 THEN "SUSTAINABILITY_BEGINNER"
                 ELSE "NO_BADGE"
    IN IF score = BadNumber \/ transparency_level = BadNumber
       THEN Raised("TypeError")
       ELSE [contract_type |-> "sustainability_rewards",
             company_name |-> company_name,
             points_awarded |-> total_points,
             badge_earned |-> badge,
             tier |-> tier,
             special_rewards |->
                 (IF score >= 95 THEN <<"TRANSPARENCY_EXCELLENCE">> ELSE <<>>)
                 \o (IF Len(certifications) >= 5 THEN <<"CERTIFICATION_MASTER">> ELSE <<>>)
                 \o (IF transparency_level >= 90 THEN <<"OPENNESS_CHAMPION">> ELSE <<>>),
             eligible_for_promotion |-> total_points >= 500,
             next_tier_requirement |-> IF tier = "NONE" THEN 300
                                       ELSE IF tier = "BRONZE" THEN 500
                                       ELSE IF tier = "SILVER" THEN 700
                                       ELSE IF tier = "GOLD" THEN 900
                                       ELSE 0]

\* str.lower() on a text, token by token
LowerText(s) == [i \in 1..Len(s) |-> Lower(s[i])]

\* `phrase in text` on token sequences
Contains(text, phrase) ==
    \E i \in 1..(Len(text) - Len(phrase) + 1) :
        SubSeq(text, i, i + Len(phrase) - 1) = phrase

RedFlagKeywords ==
    << <<"100%", "natural">>, <<"completely", "eco-friendly">>,
       <<"totally", "green">>, <<"environmentally", "safe">>, <<"non-toxic">>,
       <<"chemical-free">>, <<"saves", "the", "planet">>,
       <<"carbon", "neutral*">>, <<"net", "zero*">> >>

VagueTerms ==
    << <<"eco-friendly">>, <<"green">>, <<"natural">>, <<"sustainable">>,
       <<"environmentally", "responsible">>, <<"clean">>, <<"pure">> >>

AbsoluteTerms ==
    << <<"100%">>, <<"completely">>, <<"totally">>, <<"never">>, <<"always">> >>

\* only the first phrase of the list that occurs in the text
MatchesFirstOnly(text, phrases) ==
    LET hit == {i \in 1..Len(phrases) : Contains(text, phrases[i])}
    IN IF hit = {} THEN <<>>
       ELSE <<phrases[CHOOSE i \in hit : \A j \in hit : i <= j]>>

\* the phrases of a list that occur in the text, in list order
Matches(text, phrases) ==
    LET hit == {i \in 1..Len(phrases) : Contains(text, phrases[i])}
        F[i \in 0..Len(phrases)] ==
            IF i = 0 THEN <<>>
            ELSE IF i \in hit THEN Append(F[i - 1], phrases[i]) ELSE F[i - 1]
    IN F[Len(phrases)]

\* GreenGuardSmartContract._automatic_flagging_contract
AutomaticFlaggingContract(inputs, context) ==
    LET raw == Get(inputs, "claim", <<>>)
        claim_text == LowerText(raw)
        company_name == Get(inputs, "company_name", "Unknown")
        red == Matches(claim_text, RedFlagKeywords)
        vague_count == Len(Matches(claim_text, VagueTerms))
        absolute_count == Len(Matches(claim_text, AbsoluteTerms))
        flags == [i \in 1..Len(red) |-> <<"RED_FLAG_KEYWORD">> \o red[i]]
                 \o (IF vague_count >= 3 THEN <<<<"EXCESSIVE_VAGUE_LANGUAGE">>>> ELSE <<>>)
                 \o (IF absolute_count >= 2
                     THEN <<<<"ABSOLUTE_CLAIMS_WITHOUT_PROOF">>>> ELSE <<>>)
        risk_score == 30 * Len(red)
                      + (IF vague_count >= 3 THEN 40 ELSE 0)
                      + (IF absolute_count >= 2 THEN 50 ELSE 0)
    IN IF raw = NotSubscriptable
       THEN Raised("AttributeError")
       ELSE [contract_type |-> "automatic_flagging",
             company_name |-> company_name,
             flags_triggered |-> flags,
             risk_score |-> risk_score,
             recommended_action |->
                 IF risk_score >= 100 THEN "IMMEDIATE_SUSPENSION"
                 ELSE IF risk_score >= 70 THEN "REQUIRE_IMMEDIATE_VERIFICATION"
                 ELSE IF risk_score >= 40 THEN "REQUEST_EVIDENCE"
                 ELSE "MONITOR",
             priority |->
                 IF risk_score >= 100 THEN "CRITICAL"
                 ELSE IF risk_score >= 70 THEN "HIGH"
                 ELSE IF risk_score >= 40 THEN "MEDIUM"
                 ELSE "LOW",
             requires_manual_review |-> risk_score >= 70,
             auto_flagged |-> Len(flags) > 0]

\* base_penalties.get(violation_severity, 10)
BasePenalty(severity) ==
    IF severity = "LOW" THEN 10
    ELSE IF severity = "MEDIUM" THEN 50
    ELSE IF severity = "HIGH" THEN 200
    ELSE IF severity = "CRITICAL" THEN 500
    ELSE 10

\* the multipliers with their fractions dropped
ScaleMultiplierWhole10(scale) ==
    IF scale = "NATIONAL" THEN 20
    ELSE IF scale = "GLOBAL" THEN 30
    ELSE 10

\* scale_multipliers.get(impact_scale, 1.0), in tenths
ScaleMultiplier10(scale) ==
    IF scale = "LOCAL" THEN 10
    ELSE IF scale = "REGIONAL" THEN 15
    ELSE IF scale = "NATIONAL" THEN 20
    ELSE IF scale = "GLOBAL" THEN 30
    ELSE 10

\* timedelta(days=30), in ticks
ReviewDelay == 30 * 86400 * TicksPerSec

\* GreenGuardSmartContract._penalty_system_contract
PenaltySystemContract(inputs, context, t) ==
    LET company_name == Get(inputs, "company_name", "Unknown")
        severity == Get(inputs, "violation_severity", "LOW")
        repeat_offender == Get(inputs, "repeat_offender", FALSE)
        impact_scale == Get(inputs, "impact_scale", "LOCAL")
        doubled == IF repeat_offender THEN BasePenalty(severity) * 2
                   ELSE BasePenalty(severity)
        penalty_points == (doubled * ScaleMultiplier10(impact_scale)) \div 10
    IN [contract_type |-> "penalty_system",
        company_name |-> company_name,
        penalty_points |-> penalty_points,
        consequences |->
            IF penalty_points >= 1000
            THEN <<"PLATFORM_BAN", "REGULATORY_REFERRAL", "PUBLIC_WARNING_ISSUED">>
            ELSE IF penalty_points >= 500
            THEN <<"VERIFICATION_REQUIRED_FOR_ALL_CLAIMS", "MONTHLY_MONITORING",
                   "PUBLIC_NOTICE">>
            ELSE IF penalty_points >= 200
            THEN <<"ENHANCED_SCRUTINY", "QUARTERLY_REVIEW", "WARNING_ISSUED">>
            ELSE IF penalty_points >= 50
            THEN <<"FORMAL_WARNING", "REQUIRED_TRAINING">>
            ELSE <<>>,
        rehabilitation_required |-> penalty_points >= 200,
        appeal_allowed |-> penalty_points < 1000,
        review_date |-> t + ReviewDelay]

\* ------------------------------------------------- binary floating point
\* A Python float is an IEEE-754 double: a significand of at most Precision
\* bits times a power of two, [m, e] standing for m * 2^e.  The significand
\* does not fit one integer of the model: it is a sequence of digits of 14
\* bits (the product of two digits fits an integer), least significant
\* first.  Every operation rounds its exact result to the nearest double,
\* ties to the even significand.
Precision == 53
Limb == 2 ^ 14
\* a + b + carry
RECURSIVE AddLimbs(_, _, _)
AddLimbs(a, b, carry) ==
    IF a = <<>> /\ b = <<>> THEN (IF carry = 0 THEN <<>> ELSE <<carry>>)
    ELSE LET x == IF a = <<>> THEN 0 ELSE Head(a)
             y == IF b = <<>> THEN 0 ELSE Head(b)
         IN <<(x + y + carry) % Limb>>
            \o AddLimbs(IF a = <<>> THEN <<>> ELSE Tail(a),
                        IF b = <<>> THEN <<>> ELSE Tail(b),
                        (x + y + carry) \div Limb)
\* a * d + carry for one digit d
RECURSIVE MulLimb(_, _, _)
MulLimb(a, d, carry) ==
    IF a = <<>> THEN (IF carry = 0 THEN <<>> ELSE <<carry>>)
    ELSE <<(Head(a) * d + carry) % Limb>>
         \o MulLimb(Tail(a), d, (Head(a) * d + carry) \div Limb)
\* a * b
RECURSIVE MulLimbs(_, _)
MulLimbs(a, b) ==
    IF a = <<>> \/ b = <<>> THEN <<>>
    ELSE AddLimbs(MulLimb(a, Head(b), 0),
                  IF Tail(b) = <<>> THEN <<>> ELSE <<0>> \o MulLimbs(a, Tail(b)),
                  0)
\* the number of bits of a, zero digits at its end not counted
BitLength(a) ==
    LET top == CHOOSE j \in 0..Len(a) :
                   (j = 0 \/ a[j] # 0) /\ \A i \in (j + 1)..Len(a) : a[i] = 0
    IN IF top = 0 THEN 0
       ELSE 14 * (top - 1)
            + (CHOOSE w \in 1..14 : 2 ^ (w - 1) <= a[top] /\ a[top] < 2 ^ w)
\* the n lowest digits of a >> k
ShiftRight(a, k, n) ==
    LET q == k \div 14
        r == k % 14
        at(j) == IF j \in 1..Len(a) THEN a[j] ELSE 0
    IN [j \in 1..n |-> (at(q + j) \div 2 ^ r) + (at(q + j + 1) % 2 ^ r) * 2 ^ (14 - r)]
\* m * 2^e without the k lowest bits of m, rounded to nearest, ties to even
DropBits(m, e, k) ==
    LET \* bit i of m, bit 0 the least significant
        bit(i) == (m[(i \div 14) + 1] \div 2 ^ (i % 14)) % 2
    IN IF k <= 0 THEN [m |-> m, e |-> e]
       ELSE [m |-> AddLimbs(ShiftRight(m, k, (Precision + 13) \div 14), <<>>,
                            IF /\ bit(k - 1) = 1
                               /\ \/ bit(k) = 1
                                  \/ \E i \in 0..(k - 2) : bit(i) = 1
                            THEN 1 ELSE 0),
             e |-> e + k]
\* the double nearest to m * 2^e
RoundToDouble(m, e) == DropBits(m, e, BitLength(m) - Precision)
\* n / d of two natural numbers of one digit (true division), 0 < d: the
\* long division of n, extended by five zero digits, by d; a remainder left
\* at the end makes the last digit of the quotient odd, which rounds as the
\* exact quotient does
FloatDiv(n, d) ==
    LET RECURSIVE LongDivision(_, _)
        \* the quotient digits, least significant first
        LongDivision(dividend, r) ==
            LET x == r * Limb + Head(dividend)
            IN IF Tail(dividend) = <<>>
               THEN <<IF x % d = 0 THEN x \div d ELSE 2 * (x \div (2 * d)) + 1>>
               ELSE Append(LongDivision(Tail(dividend), x % d), x \div d)
    IN RoundToDouble(LongDivision(<<n, 0, 0, 0, 0, 0>>, 0), 0 - 5 * 14)
\* x * y
FloatMul(x, y) == RoundToDouble(MulLimbs(x.m, y.m), x.e + y.e)
\* int(x) of a double that is not negative and below Limb * Limb
IntOfFloat(x) ==
    IF x.e >= 0 THEN (IF x.m = <<>> THEN 0 ELSE x.m[1] * 2 ^ x.e)
    ELSE LET whole == ShiftRight(x.m, 0 - x.e, 2)
         IN whole[1] + Limb * whole[2]

\* sum(h.get(key, default) for h in s)
RECURSIVE SumField(_, _, _)
SumField(s, key, default) ==
    IF s = <<>> THEN 0
    ELSE Get(Head(s), key, default) + SumField(Tail(s), key, default)

\* base_bounty table with its .get(claim_complexity, 10)
BaseBounty(complexity) ==
    IF complexity = "SIMPLE" THEN 10
    ELSE IF complexity = "MODERATE" THEN 25
    ELSE IF complexity = "COMPLEX" THEN 50
    ELSE IF complexity = "EXPERT" THEN 100
    ELSE 10

\* speed_bonus table with its .get(verification_speed, 1.0); the literals
\* 1.5, 1.2, 1.0, 0.8 are written as their tenths
SpeedBonus10(speed) ==
    IF speed = "INSTANT" THEN 15
    ELSE IF speed = "FAST" THEN 12
    ELSE IF speed = "NORMAL" THEN 10
    ELSE IF speed = "SLOW" THEN 8
    ELSE 10

\* GreenGuardSmartContract._verification_bounty_contract
VerificationBountyContract(inputs, context) ==
    LET verifier_email == Get(inputs, "verifier_email", "unknown")
        verification_quality == Get(inputs, "verification_quality", 0)
        claim_complexity == Get(inputs, "claim_complexity", "SIMPLE")
        verification_speed == Get(inputs, "verification_speed", "NORMAL")
        verifier_history == Get(context, "verifier_history", <<>>)
        total_verifications == Len(verifier_history)
        verifier_level ==
            IF total_verifications >= 100 THEN "EXPERT"
            ELSE IF total_verifications >= 50 THEN "ADVANCED"
            ELSE IF total_verifications >= 10 THEN "INTERMEDIATE"
            ELSE "BEGINNER"
        level_bonus ==
            IF total_verifications >= 100 THEN 50
            ELSE IF total_verifications >= 50 THEN 25
            ELSE IF total_verifications >= 10 THEN 10
            ELSE 0
        base_bounty == [m |-> <<BaseBounty(claim_complexity)>>, e |-> 0]
        quality_multiplier == FloatDiv(verification_quality, 100)
        speed_bonus == FloatDiv(SpeedBonus10(verification_speed), 10)
        final_bounty ==
            IntOfFloat(FloatMul(FloatMul(base_bounty, quality_multiplier),
                                speed_bonus))
            + level_bonus
    IN IF verification_quality = BadNumber
       THEN Raised("TypeError")
       ELSE [contract_type |-> "verification_bounty",
             verifier_email |-> verifier_email,
             bounty_awarded |-> final_bounty,
             verifier_level |-> verifier_level,
             quality_score |-> verification_quality,
             total_earned |-> SumField(verifier_history, "bounty", 0) + final_bounty,
             \* 0 stands for the label "MAX_LEVEL"
             next_level_requirement |->
                 IF verifier_level = "BEGINNER" THEN 10
                 ELSE IF verifier_level = "INTERMEDIATE" THEN 50
                 ELSE IF verifier_level = "ADVANCED" THEN 100
                 ELSE 0]

\* n/d rounded to the nearest integer, d > 0
RoundDiv(n, d) ==
    IF n >= 0 THEN (2 * n + d) \div (2 * d)
    ELSE 0 - ((2 * (0 - n) + d) \div (2 * d))

\* GreenGuardSmartContract._get_transparency_recommendations; the score is
\* passed as three times its value (the undivided sum of the three parts)
GetTransparencyRecommendations(sum3) ==
    (IF sum3 < 270 THEN <<"Publish detailed sustainability reports">> ELSE <<>>)
    \o (IF sum3 < 225 THEN <<"Provide supply chain transparency">> ELSE <<>>)
    \o (IF sum3 < 180 THEN <<"Share environmental impact data">> ELSE <<>>)
    \o (IF sum3 < 120 THEN <<"Respond to verification requests promptly">> ELSE <<>>)
    \o (IF sum3 < 75
        THEN <<"Establish basic environmental disclosure practices">> ELSE <<>>)

\* GreenGuardSmartContract._transparency_tracker_contract; the two rounded
\* numbers of the result are in hundredths
TransparencyTrackerContract(inputs, context) ==
    LET company_name == Get(inputs, "company_name", "Unknown")
        disclosed_data == Get(inputs, "disclosed_data", EmptyDict)
        response_time == Get(inputs, "response_time_hours", 999)
        data_completeness == Get(inputs, "data_completeness", 0)
        disclosure_score == Cardinality(DOMAIN disclosed_data) * 10
        timeliness_score == Max(0, 100 - response_time)
        sum3 == disclosure_score + timeliness_score + data_completeness
        history == Get(context, "transparency_history", <<>>)
        k == Min(3, Len(history))
        recent3k == 3 * SumField(LastN(history, 3), "transparency_score", 0)
    IN IF response_time = BadNumber \/ data_completeness = BadNumber
       THEN Raised("TypeError")
       ELSE [contract_type |-> "transparency_tracker",
             company_name |-> company_name,
             transparency_score |-> RoundDiv(sum3 * 100, 3),
             improvement |->
                 IF Len(history) >= 2
                 THEN RoundDiv((k * sum3 - recent3k) * 100, 3 * k)
                 ELSE 0,
             recognition_level |->
                 IF sum3 >= 270 THEN "TRANSPARENCY_CHAMPION"
                 ELSE IF sum3 >= 225 THEN "TRANSPARENCY_LEADER"
                 ELSE IF sum3 >= 180 THEN "TRANSPARENCY_PRACTITIONER"
                 ELSE IF sum3 >= 120 THEN "TRANSPARENCY_BEGINNER"
                 ELSE "TRANSPARENCY_NEEDED",
             areas_disclosed |-> DOMAIN disclosed_data,
             response_time_rating |->
                 IF response_time < 24 THEN "EXCELLENT"
                 ELSE IF response_time < 72 THEN "GOOD"
                 ELSE IF response_time < 168 THEN "AVERAGE"
                 ELSE "POOR",
             recommended_improvements |-> GetTransparencyRecommendations(sum3)]

\* ------------------------------------------------------ contract registry
\* ContractType: the six values of the enumeration, in declaration order
ContractTypes ==
    <<"greenwashing_detector", "sustainability_rewards", "automatic_flagging",
      "penalty_system", "verification_bounty", "transparency_tracker">>

\* f"SC_{contract_type.value}_{int(time.time())}"
ContractIdOf(type, t) == <<"SC", "_", type, "_">> \o Dec(IntOf(t))

\* GreenGuardSmartContract.__init__ (created_at, which is written here and
\* read nowhere, is left out)
NewContract(id, type, creator, parameters, t) ==
    [contract_id |-> id, contract_type |-> type, creator |-> creator,
     parameters |-> parameters, state |-> "pending",
     executed_count |-> 0, total_gas_used |-> 0, execution_history |-> <<>>]

\* a deploy that leaves the latest-of-type entry of a type already deployed
DeployKeepingFirstIndex(reg, type, creator, parameters, t) ==
    LET id == ContractIdOf(type, t)
    IN [contracts |-> [i \in DOMAIN reg.contracts \cup {id} |->
                          IF i = id THEN NewContract(id, type, creator, parameters, t)
                          ELSE reg.contracts[i]],
        contract_registry |-> [ty \in DOMAIN reg.contract_registry \cup {type} |->
                          IF ty \in DOMAIN reg.contract_registry
                          THEN reg.contract_registry[ty] ELSE id]]

\* SmartContractBlockchain.deploy_contract: the registry after the call
DeployContract(reg, type, creator, parameters, t) ==
    LET id == ContractIdOf(type, t)
    IN [contracts |-> [i \in DOMAIN reg.contracts \cup {id} |->
                          IF i = id THEN NewContract(id, type, creator, parameters, t)
                          ELSE reg.contracts[i]],
        contract_registry |-> [ty \in DOMAIN reg.contract_registry \cup {type} |->
                          IF ty = type THEN id ELSE reg.contract_registry[ty]]]

\* default_contracts of _deploy_default_contracts (0.7 written in tenths)
DefaultParameters ==
    <<[sensitivity |-> 7], [max_points |-> 1000], [threshold |-> 50],
      [max_penalty |-> 1000], [max_bounty |-> 200],
      [update_frequency |-> "weekly"]>>

RECURSIVE DeployAll(_, _, _)
DeployAll(reg, i, t) ==
    IF i > Len(ContractTypes) THEN reg
    ELSE DeployAll(DeployContract(reg, ContractTypes[i], "system@greenguard.com",
                                  DefaultParameters[i], t),
                   i + 1, t)

\* SmartContractBlockchain.__init__ / _deploy_default_contracts
NewSmartContractBlockchain(t) ==
    DeployAll([contracts |-> EmptyDict, contract_registry |-> EmptyDict], 1, t)

\* the if / elif chain of GreenGuardSmartContract.execute
Dispatch(ty, inputs, context, t) ==
    IF ty = "greenwashing_detector" THEN GreenwashingDetectorContract(inputs, context)
    ELSE IF ty = "sustainability_rewards"
    THEN SustainabilityRewardsContract(inputs, context)
    ELSE IF ty = "automatic_flagging" THEN AutomaticFlaggingContract(inputs, context)
    ELSE IF ty = "penalty_system" THEN PenaltySystemContract(inputs, context, t)
    ELSE IF ty = "verification_bounty" THEN VerificationBountyContract(inputs, context)
    ELSE IF ty = "transparency_tracker"
    THEN TransparencyTrackerContract(inputs, context)
    ELSE Raised("ValueError")

\* an evaluation that adds the contract's executed_count to the penalty
EvaluateCountingCalls(c, inputs, context, t) ==
    LET r == Dispatch(c.contract_type, inputs, context, t)
    IN IF "penalty_points" \in DOMAIN r
       THEN [r EXCEPT !.penalty_points = @ + c.executed_count]
       ELSE r

\* the result of self's evaluator: of the contract only its type is read
Evaluate(c, inputs, context, t) == Dispatch(c.contract_type, inputs, context, t)

\* len(str(n)) of an integer
IntWidth(n) == IF n >= 0 THEN Len(Dec(n)) ELSE 1 + Len(Dec(0 - n))

\* total length of the strings of a sequence
RECURSIVE TextWidth(_)
TextWidth(s) == IF s = <<>> THEN 0 ELSE Len(Head(s)) + TextWidth(Tail(s))

\* len(str(list)) of a list whose items are strings
ListWidth(s) == 2 + TextWidth(s) + 2 * Len(s) + 2 * Max(0, Len(s) - 1)

\* ... and of one whose items are texts, each a sequence of words
RECURSIVE TextListWidth(_)
TextListWidth(s) ==
    IF s = <<>> THEN 2
    ELSE TextWidth(Head(s)) + Len(Head(s)) + 3 + TextListWidth(Tail(s))

RECURSIVE SetWidth(_)
SetWidth(S) ==
    IF S = {} THEN 2
    ELSE LET x == CHOOSE y \in S : TRUE IN Len(x) + 4 + SetWidth(S \ {x})

BoolFields ==
    {"requires_human_review", "automated_response", "eligible_for_promotion",
     "requires_manual_review", "auto_flagged", "rehabilitation_required",
     "appeal_allowed"}

IntFields ==
    {"penalty_points", "points_awarded", "next_tier_requirement", "risk_score",
     "review_date", "bounty_awarded", "quality_score", "total_earned",
     "next_level_requirement", "transparency_score", "improvement"}

ListFields ==
    {"actions_triggered", "special_rewards", "consequences",
     "recommended_improvements"}

TextListFields == {"alerts_generated", "flags_triggered"}

\* len(repr(v)) of the value of one field of a result
ValueWidth(k, v) ==
    IF k \in BoolFields THEN (IF v THEN 4 ELSE 5)
    ELSE IF k \in IntFields THEN IntWidth(v)
    ELSE IF k \in ListFields THEN ListWidth(v)
    ELSE IF k \in TextListFields THEN TextListWidth(v)
    ELSE IF k = "areas_disclosed" THEN SetWidth(v)
    ELSE Len(v) + 2

\* len(str(result)) of a result dict
RECURSIVE FieldsWidth(_, _)
FieldsWidth(r, keys) ==
    IF keys = {} THEN 0
    ELSE LET k == CHOOSE x \in keys : TRUE
         IN Len(k) + 4 + ValueWidth(k, r[k]) + 2 + FieldsWidth(r, keys \ {k})

ReprLen(result) == FieldsWidth(result, DOMAIN result)

\* a gas schedule without the time component
GasIgnoringTime(result, execution_time) == 100 + (ReprLen(result) \div 10)

\* GreenGuardSmartContract._calculate_gas_usage (execution_time in ticks)
CalculateGasUsage(result, execution_time) ==
    100 + (ReprLen(result) \div 10) + ((execution_time * 50) \div TicksPerSec)

\* gas_used reported by the except branch of execute
FailureGas == 50

\* f"EXEC_{int(time.time())}_{self.executed_count}"
ExecutionIdOf(t, n) == <<"EXEC", "_">> \o Dec(IntOf(t)) \o <<"_">> \o Dec(n)

\* an execute without its except branch: the exception leaves the call
ExecutePropagating(c, inputs, context, t, d) ==
    [self |-> [c EXCEPT !.state = "active"],
     return |-> Evaluate(c, inputs, context, t)]

\* GreenGuardSmartContract.execute from the return of its evaluator on: the
\* bookkeeping of the try branch, or the except branch for a raised exception
ExecuteResult(c, inputs, result, t, d) ==
    IF HasRaised(result)
    THEN [self |-> [c EXCEPT !.state = "failed"],
          return |-> [success |-> FALSE, contract_id |-> c.contract_id,
                      error |-> result.error, gas_used |-> FailureGas]]
    ELSE LET gas_used == CalculateGasUsage(result, d)
             execution_record ==
                 [execution_id |-> ExecutionIdOf(t + d, c.executed_count + 1),
                  inputs |-> inputs,
                  result |-> result,
                  gas_used |-> gas_used,
                  execution_time |-> d]
         IN [self |-> [c EXCEPT !.state = "executed",
                                !.executed_count = @ + 1,
                                !.total_gas_used = @ + gas_used,
                                !.execution_history = Append(@, execution_record)],
             return |-> [success |-> TRUE, contract_id |-> c.contract_id,
                         execution_id |-> execution_record.execution_id,
                         result |-> result,
                         gas_used |-> gas_used,
                         execution_time |-> d]]

\* GreenGuardSmartContract.execute, started at t and taking d ticks: the
\* contract after the call (self) and the dict the call returns (the record's
\* ISO timestamp, read nowhere, is left out)
Execute(c, inputs, context, t, d) ==
    ExecuteResult(c, inputs, Evaluate(c, inputs, context, t), t, d)

\* the type -> results key pairs of execute_verification_contracts, in order
VerificationContractTypes ==
    << <<"greenwashing_detector", "greenwashing_detection">>,
       <<"automatic_flagging", "automatic_flagging">>,
       <<"sustainability_rewards", "sustainability_rewards">> >>

RECURSIVE ExecuteTypes(_, _, _, _)
ExecuteTypes(acc, types, inputs, t) ==
    IF types = <<>> THEN acc
    ELSE LET ty == Head(types)[1]
             key == Head(types)[2]
             next ==
               IF ty \in DOMAIN acc.reg.contract_registry
               THEN LET id == acc.reg.contract_registry[ty]
                        x == Execute(acc.reg.contracts[id], inputs, EmptyDict, t, 0)
                    IN [reg |-> [acc.reg EXCEPT !.contracts[id] = x.self],
                        results |-> [k \in DOMAIN acc.results \cup {key} |->
                                        IF k = key THEN x.return ELSE acc.results[k]]]
               ELSE acc
         IN ExecuteTypes(next, Tail(types), inputs, t)

\* SmartContractBlockchain.execute_verification_contracts: the registry after
\* the call (reg) and the dict it returns (results)
ExecuteVerificationContracts(reg, verification_data, t) ==
    ExecuteTypes([reg |-> reg, results |-> EmptyDict], VerificationContractTypes,
                 verification_data, t)

\* the items of a list field of a successful result, each as a text
ActionsOf(r, field) ==
    IF r.success /\ field \in DOMAIN r.result
    THEN {IF field \in TextListFields THEN r.result[field][i]
          ELSE <<r.result[field][i]>> : i \in 1..Len(r.result[field])}
    ELSE {}

\* execute_smart_contracts_for_verification: the dict it returns
SmartContractsReturn(results) ==
    [contracts_executed |-> Cardinality(DOMAIN results),
     contract_results |-> results,
     automated_actions |->
         UNION {ActionsOf(results[k], f) :
                    k \in DOMAIN results,
                    f \in {"actions_triggered", "consequences", "flags_triggered",
                           "special_rewards"}},
     smart_contract_system |-> "operational"]

\* SmartContractBlockchain.get_contract_statistics
RECURSIVE SumOver(_, _, _)
SumOver(f, ids, field) ==
    IF ids = {} THEN 0
    ELSE LET i == CHOOSE x \in ids : TRUE
         IN f[i][field] + SumOver(f, ids \ {i}, field)

\* the statistics with a failed contract counted as an active one
StatisticsFailedAsActive(reg) ==
    [total_contracts |-> Cardinality(DOMAIN reg.contracts),
     total_executions |-> SumOver(reg.contracts, DOMAIN reg.contracts, "executed_count"),
     total_gas_used |-> SumOver(reg.contracts, DOMAIN reg.contracts, "total_gas_used"),
     active_contracts |-> Cardinality({i \in DOMAIN reg.contracts :
                                          reg.contracts[i].state \in {"active", "failed"}})]

GetContractStatistics(reg) ==
    [total_contracts |-> Cardinality(DOMAIN reg.contracts),
     total_executions |-> SumOver(reg.contracts, DOMAIN reg.contracts, "executed_count"),
     total_gas_used |-> SumOver(reg.contracts, DOMAIN reg.contracts, "total_gas_used"),
     active_contracts |-> Cardinality({i \in DOMAIN reg.contracts :
                                          reg.contracts[i].state = "active"})]

\* get_blockchain_statistics: the returned dict, on the (seeded) ledger c
BlocksOfType(c, ty) ==
    {i \in 1..Len(c) : Get(Get(c[i], "data", EmptyDict), "type", "") = ty}

\* a company_name that is no str (None, a number): .strip() raises on it
NotAString == "<not a str>"

\* str.strip() on the names that occur
Strip(s) ==
    CASE s = " acme " -> "acme"
      [] s = " " -> ""
      [] OTHER -> s

\* the set of companies with the names compared as they are stored
CompaniesCaseSensitive(c) ==
    {Strip(Get(c[i].data, "company_name", "")) : i \in BlocksOfType(c, "verification")}
        \ {"unknown", "", "none", "anonymous"}

Companies(c) ==
    {Lower(Strip(Get(c[i].data, "company_name", ""))) :
        i \in BlocksOfType(c, "verification")}
        \ {"unknown", "", "none", "anonymous"}

\* the loop over the verification blocks raises AttributeError
StatisticsRaises(c) ==
    \E i \in BlocksOfType(c, "verification") :
        Get(c[i].data, "company_name", "") = NotAString

\* the dict of the except branch
StatisticsError ==
    [total_blocks |-> 0, verification_blocks |-> 0, claim_analysis_blocks |-> 0,
     companies_on_blockchain |-> 0, network_status |-> "error"]

BlockchainStatistics(c, reg) ==
    IF StatisticsRaises(c) THEN StatisticsError
    ELSE [total_blocks |-> Len(c),
          verification_blocks |-> Cardinality(BlocksOfType(c, "verification")),
          claim_analysis_blocks |-> Cardinality(BlocksOfType(c, "claim_analysis")),
          companies_on_blockchain |-> Cardinality(Companies(c)),
          network_status |-> "operational",
          valid |-> ValidateBlockchainIntegrity(c),
          smart_contracts |-> GetContractStatistics(reg)]

\* ================================================================ state
Threads == 1..NumThreads

IdleThread == [pc |-> "idle"]

\* module import: line 838 seeds the genesis block
Init ==
    /\ now = 0
    /\ chain = InitializeSimpleBlockchain(<<>>, 0)
    /\ scb = None
    /\ ret = [op |-> "import"]
    /\ issued = {}
    /\ tampered = None
    /\ resetPc = "idle"
    /\ thr = [t \in Threads |-> IdleThread]

\* no handler is half-way and nobody edited the ledger behind its back
NoneInFlight == \A t \in Threads : thr[t].pc \in {"idle", "done"}

Quiet == tampered = None /\ resetPc \in {"idle", "cleared"} /\ NoneInFlight

\* the clock advances between calls
Tick ==
    /\ now < MaxTime
    /\ now' = now + 1
    /\ UNCHANGED <<chain, scb, ret, issued, tampered, resetPc, thr>>

\* the body shared by the two add_* functions: try / except around the append
AddToBlockchain(op, raises, data) ==
    /\ Quiet
    /\ Len(chain) < MaxLen
    /\ IF raises
       THEN /\ ret' = [op |-> op, ok |-> FALSE, value |-> ErrorIdOf(now),
                       before |-> Len(chain), stage |-> "build"]
            /\ UNCHANGED <<chain, issued>>
       ELSE IF SealRaises(data)
       THEN /\ chain' = InitializeSimpleBlockchain(chain, now)
            /\ ret' = [op |-> op, ok |-> FALSE, value |-> ErrorIdOf(now),
                       before |-> Len(chain), stage |-> "seal"]
            /\ UNCHANGED issued
       ELSE /\ chain' = AddBlockToSimpleChain(chain, data, now)
            /\ ret' = [op |-> op, ok |-> TRUE, value |-> AddBlockId(chain, data, now),
                       before |-> Len(chain)]
            /\ issued' = issued \cup
                 {[id |-> AddBlockId(chain, data, now),
                   block |-> chain'[Len(chain')],
                   data |-> data]}
    /\ UNCHANGED <<now, scb, tampered, resetPc, thr>>

\* add_verification_to_blockchain
AddVerification ==
    \E v \in VerificationInputs :
        AddToBlockchain("add_verification", VerificationRaises(v),
                        IF VerificationRaises(v) THEN EmptyDict
                        ELSE VerificationBlockData(v, now))

\* add_claim_analysis_to_blockchain
AddClaimAnalysis ==
    \E cd \in ClaimInputs :
        AddToBlockchain("add_claim_analysis", ClaimAnalysisRaises(cd),
                        IF ClaimAnalysisRaises(cd) THEN EmptyDict
                        ELSE ClaimAnalysisBlockData(cd, now))

\* get_blockchain_statistics
GetStatistics ==
    /\ NoneInFlight
    /\ LET c1 == InitializeSimpleBlockchain(chain, now)
           reg == IF scb = None THEN NewSmartContractBlockchain(now) ELSE scb
       IN /\ chain' = c1
          /\ scb' = IF StatisticsRaises(c1) THEN scb ELSE reg
          /\ ret' = [op |-> "statistics", value |-> BlockchainStatistics(c1, reg),
                     before |-> Len(chain)]
    /\ UNCHANGED <<now, issued, tampered, resetPc, thr>>

\* validate_blockchain_integrity
ValidateIntegrity ==
    /\ NoneInFlight
    /\ ret' = [op |-> "validate", value |-> ValidateBlockchainIntegrity(chain),
               before |-> Len(chain)]
    /\ UNCHANGED <<chain, now, scb, issued, tampered, resetPc, thr>>

\* get_company_verification_history
GetHistory ==
    /\ Quiet
    /\ \E name \in {"Acme", "Unknown"} :
         LET c1 == InitializeSimpleBlockchain(chain, now)
         IN /\ chain' = c1
            /\ ret' = [op |-> "history",
                       value |-> GetCompanyVerificationHistory(c1, name),
                       before |-> Len(chain)]
    /\ UNCHANGED <<now, scb, issued, tampered, resetPc, thr>>

\* ids a caller may ask for: those it was given, and the genesis block's
KnownIds == {r.id : r \in issued} \cup {ErrorIdOf(now), BlockIdOf(0, 0)}

\* get_blockchain_block_by_id
GetBlock ==
    /\ Quiet
    /\ \E id \in KnownIds :
         ret' = [op |-> "get_block", id |-> id, value |-> GetBlockById(chain, id),
                 before |-> Len(chain)]
    /\ UNCHANGED <<chain, now, scb, issued, tampered, resetPc, thr>>

\* the records handed to the contracts: those of a verification still to be
\* stored, without the fields the ledger adds
SmartContractInputs == {v \in VerificationInputs : "automated_actions" \notin DOMAIN v}

\* execute_smart_contracts_for_verification
ExecuteSmartContracts ==
    /\ Quiet
    /\ \E v \in SmartContractInputs :
         LET reg == IF scb = None THEN NewSmartContractBlockchain(now) ELSE scb
             x == ExecuteVerificationContracts(reg, v, now)
         IN /\ \A i \in DOMAIN reg.contracts : reg.contracts[i].executed_count < MaxExec
            /\ scb' = x.reg
            /\ ret' = [op |-> "execute", value |-> SmartContractsReturn(x.results),
                       before |-> Len(chain)]
    /\ UNCHANGED <<chain, now, issued, tampered, resetPc, thr>>

\* reset_blockchain_for_testing, run without interruption
Reset ==
    /\ NoneInFlight
    /\ resetPc = "idle"
    /\ chain' = InitializeSimpleBlockchain(<<>>, now)
    /\ scb' = None
    /\ issued' = {}
    /\ tampered' = None
    /\ ret' = [op |-> "reset"]
    /\ UNCHANGED <<now, resetPc, thr>>

Handlers ==
    \/ AddVerification
    \/ AddClaimAnalysis
    \/ GetStatistics
    \/ ValidateIntegrity
    \/ GetHistory
    \/ GetBlock
    \/ ExecuteSmartContracts

Next ==
    \/ Tick
    \/ Handlers
    \/ Reset

Spec == Init /\ [][Next]_vars

\* ------------------------------------------- reset interrupted by a handler
\* reset_blockchain_for_testing up to its two assignments (lines 832-833)
ResetClear ==
    /\ NoneInFlight
    /\ tampered = None
    /\ resetPc = "idle"
    /\ chain' = <<>>
    /\ scb' = None
    /\ issued' = {}
    /\ resetPc' = "cleared"
    /\ ret' = [op |-> "reset_clear"]
    /\ UNCHANGED <<now, tampered, thr>>

\* ... and its call of _initialize_simple_blockchain (line 834)
ResetReseed ==
    /\ resetPc = "cleared"
    /\ chain' = InitializeSimpleBlockchain(chain, now)
    /\ resetPc' = "idle"
    /\ ret' = [op |-> "reset"]
    /\ UNCHANGED <<now, scb, issued, tampered, thr>>

NextReset ==
    \/ Tick
    \/ Handlers
    \/ ResetClear
    \/ ResetReseed

\* handlers of other requests run between the two statements of a reset
SpecReset == Init /\ [][NextReset]_vars

\* ------------------------------------------------- the contract registry
\* a SmartContractBlockchain is constructed (app.py line 146) and then used
\* by the routes: deploy_contract, execute on a contract looked up by id,
\* get_contract_statistics
InitContract ==
    /\ now = 0
    /\ chain = InitializeSimpleBlockchain(<<>>, 0)
    /\ scb = NewSmartContractBlockchain(0)
    /\ ret = [op |-> "import"]
    /\ issued = {}
    /\ tampered = None
    /\ resetPc = "idle"
    /\ thr = [t \in Threads |-> IdleThread]

\* the inputs and context the callers hand to execute, by contract type
ContractCalls ==
    { [type |-> "greenwashing_detector",
       inputs |-> [company_name |-> "Acme", verification_score |-> 15,
                   confidence |-> 85],
       context |-> [company_history |-> <<>>]],
      [type |-> "greenwashing_detector", inputs |-> EmptyDict, context |-> EmptyDict],
      [type |-> "greenwashing_detector",
       inputs |-> [company_name |-> "Acme", verification_score |-> BadNumber],
       context |-> EmptyDict],
      [type |-> "penalty_system",
       inputs |-> [company_name |-> "Acme", violation_severity |-> "SEVERE"],
       context |-> EmptyDict] }

\* what deploy_contract is called with after construction
DeployCalls ==
    { [type |-> "greenwashing_detector", creator |-> "admin@greenguard.com",
       parameters |-> [sensitivity |-> 8]] }

TotalExecutions(reg) == GetContractStatistics(reg).total_executions

\* SmartContractBlockchain.deploy_contract
Deploy ==
    /\ \E dc \in DeployCalls :
         /\ scb' = DeployContract(scb, dc.type, dc.creator, dc.parameters, now)
         /\ ret' = [op |-> "deploy", value |-> ContractIdOf(dc.type, now),
                    call |-> dc]
    /\ UNCHANGED <<chain, now, issued, tampered, resetPc, thr>>

\* an execute whose failure is charged to the contract like a success
ExecuteContractChargingFailures ==
    /\ TotalExecutions(scb) < MaxCalls
    /\ \E id \in DOMAIN scb.contracts, call \in ContractCalls, d \in 0..MaxExecTicks :
         /\ call.type = scb.contracts[id].contract_type
         /\ now + d <= MaxTime
         /\ LET x == Execute(scb.contracts[id], call.inputs, call.context, now, d)
                charged == IF x.return.success THEN x.self
                           ELSE [x.self EXCEPT !.executed_count = @ + 1,
                                               !.total_gas_used = @ + FailureGas]
            IN /\ scb' = [scb EXCEPT !.contracts[id] = charged]
               /\ ret' = [op |-> "execute_contract", id |-> id, call |-> call,
                          d |-> d, value |-> x.return]
         /\ now' = now + d
    /\ UNCHANGED <<chain, issued, tampered, resetPc, thr>>

\* contract.execute(inputs, context) on a contract of the registry
ExecuteContract ==
    /\ TotalExecutions(scb) < MaxCalls
    /\ \E id \in DOMAIN scb.contracts, call \in ContractCalls, d \in 0..MaxExecTicks :
         /\ call.type = scb.contracts[id].contract_type
         /\ now + d <= MaxTime
         /\ LET x == Execute(scb.contracts[id], call.inputs, call.context, now, d)
            IN /\ scb' = [scb EXCEPT !.contracts[id] = x.self]
               /\ ret' = [op |-> "execute_contract", id |-> id, call |-> call,
                          d |-> d, value |-> x.return]
         /\ now' = now + d
    /\ UNCHANGED <<chain, issued, tampered, resetPc, thr>>

\* a contract object built with a type that none of the branches handles
UnknownTypes == {"carbon_offset"}

\* GreenGuardSmartContract(...).execute(...) on a contract outside a registry
ExecuteDirect ==
    /\ \E ty \in UnknownTypes :
         LET c == NewContract(<<"SC", "_", ty, "_">> \o Dec(IntOf(now)), ty,
                              "admin@greenguard.com", EmptyDict, now)
             x == Execute(c, EmptyDict, EmptyDict, now, 0)
         IN ret' = [op |-> "execute_direct", self |-> x.self, value |-> x.return,
                    call |-> [type |-> ty, inputs |-> EmptyDict,
                              context |-> EmptyDict]]
    /\ UNCHANGED <<chain, now, scb, issued, tampered, resetPc, thr>>

\* SmartContractBlockchain.get_contract_statistics
ContractStatistics ==
    /\ ret' = [op |-> "contract_statistics", value |-> GetContractStatistics(scb)]
    /\ UNCHANGED <<chain, now, scb, issued, tampered, resetPc, thr>>

NextContract ==
    \/ Tick
    \/ Deploy
    \/ ExecuteContract
    \/ ExecuteDirect
    \/ ContractStatistics

SpecContract == InitContract /\ [][NextContract]_vars

\* --------------------------------------------- a sealed block is edited
ForgedHash == Sha256Text("forged")

TamperedBlock(b, f) ==
    CASE f = "index" -> [b EXCEPT !.index = @ + 1]
      [] f = "timestamp" -> [b EXCEPT !.timestamp = @ + 1]
      [] f = "data" -> [b EXCEPT !.data.timestamp = @ + 1]
      [] f = "previous_hash" -> [b EXCEPT !.previous_hash = ForgedHash]
      [] f = "nonce" -> [b EXCEPT !.nonce = @ + 1]
      [] f = "hash" -> [b EXCEPT !.hash = ForgedHash]

\* one field of one sealed block is overwritten in place
Tamper ==
    /\ Quiet
    /\ \E i \in 1..Len(chain) :
         \E f \in DOMAIN chain[i] :
            /\ chain' = [chain EXCEPT ![i] = TamperedBlock(@, f)]
            /\ tampered' = [pos |-> i, field |-> f]
    /\ ret' = [op |-> "tamper"]
    /\ UNCHANGED <<now, scb, issued, resetPc, thr>>

NextTamper ==
    \/ Next
    \/ Tamper

SpecTamper == Init /\ [][NextTamper]_vars

\* ------------------------------- concurrent callers of add_verification
\* lines 559-579 and 528-529: build the payload, seed an empty ledger
CBegin(t) ==
    /\ thr[t].pc = "idle"
    /\ \E v \in VerificationInputs :
         IF VerificationRaises(v)
         THEN /\ thr' = [thr EXCEPT ![t] = [pc |-> "done", ok |-> FALSE,
                                            id |-> ErrorIdOf(now)]]
              /\ UNCHANGED chain
         ELSE /\ thr' = [thr EXCEPT ![t] = [pc |-> "read_last",
                                            data |-> VerificationBlockData(v, now)]]
              /\ chain' = InitializeSimpleBlockchain(chain, now)
    /\ UNCHANGED <<now, scb, ret, issued, tampered, resetPc>>

\* line 530: previous_block = _simple_blockchain_data[-1]
CReadLast(t) ==
    /\ thr[t].pc = "read_last"
    /\ thr' = [thr EXCEPT ![t] = [pc |-> "read_len", data |-> thr[t].data,
                                  previous_block |-> chain[Len(chain)]]]
    /\ UNCHANGED <<chain, now, scb, ret, issued, tampered, resetPc>>

\* lines 531-539: new_index = len(...), timestamp = time.time(), block_data
CReadLen(t) ==
    /\ thr[t].pc = "read_len"
    /\ thr' = [thr EXCEPT ![t] =
                 [pc |-> "mine",
                  block_data |-> [index |-> Len(chain),
                                  timestamp |-> now,
                                  data |-> thr[t].data,
                                  previous_hash |-> thr[t].previous_block.hash,
                                  nonce |-> 0]]]
    /\ UNCHANGED <<chain, now, scb, ret, issued, tampered, resetPc>>

\* lines 541-549: the proof-of-work search, on the caller's own block_data
CMine(t) ==
    /\ thr[t].pc = "mine"
    /\ thr' = [thr EXCEPT ![t] =
                 IF SealRaises(thr[t].block_data.data)
                 THEN [pc |-> "done", ok |-> FALSE, id |-> ErrorIdOf(now)]
                 ELSE [pc |-> "push", block_data |-> MineFrom(thr[t].block_data)]]
    /\ UNCHANGED <<chain, now, scb, ret, issued, tampered, resetPc>>

\* lines 550-554: _simple_blockchain_data.append(block_data); return block_id
CPush(t) ==
    /\ thr[t].pc = "push"
    /\ chain' = Append(chain, thr[t].block_data)
    /\ thr' = [thr EXCEPT ![t] =
                 [pc |-> "done", ok |-> TRUE,
                  id |-> BlockIdOf(thr[t].block_data.index,
                                   thr[t].block_data.timestamp)]]
    /\ UNCHANGED <<now, scb, ret, issued, tampered, resetPc>>

NextConc ==
    \/ Tick
    \/ \E t \in Threads : CBegin(t)
    \/ \E t \in Threads : CReadLast(t)
    \/ \E t \in Threads : CReadLen(t)
    \/ \E t \in Threads : CMine(t)
    \/ \E t \in Threads : CPush(t)
    \/ ValidateIntegrity

\* request threads interleave inside _add_block_to_simple_chain (no lock)
SpecConc == Init /\ [][NextConc]_vars

\* ================================================================ claims
AppendOps == {"add_verification", "add_claim_analysis"}

\* the last call was an append that returned a block id
AppendSucceeded == ret.op \in AppendOps /\ ret.ok

\* C1: after any sequence of appends every block at position i >= 1 has
\* previous_hash equal to the hash stored in the block before it, and the
\* block at position 0 has previous_hash "0".
C1_PreviousHashLinkage ==
    /\ Len(chain) >= 1 => chain[1].previous_hash = StrZero
    /\ \A i \in 2..Len(chain) : chain[i].previous_hash = chain[i - 1].hash

\* C1 witness: two payload blocks were appended behind the genesis block
C1_Witness ==
    /\ AppendSucceeded
    /\ Len(chain) >= 3
    /\ chain[3].previous_hash = chain[2].hash
    /\ chain[2].hash # chain[1].hash

\* C2 (as claimed): every block of the ledger, the genesis block included,
\* stores the SHA-256 of the sorted-key serialization of its other fields,
\* and that digest starts with `difficulty` '0' characters.
C2_EveryBlockSealed ==
    \A i \in 1..Len(chain) :
        /\ chain[i].hash = Sha256Json(Canonical(chain[i]))
        /\ StartsWithTarget(chain[i].hash)

\* the edit is one that _validate_blockchain_integrity looks at: a field of
\* a block behind the genesis block, or the genesis hash when a block
\* follows it
TamperDetectable ==
    \/ tampered.pos >= 2
    \/ tampered.field = "hash" /\ Len(chain) >= 2

\* C3 (as claimed): changing any single field of any one sealed block,
\* whichever its position, makes verify_integrity return false.
C3_AnyTamperDetected ==
    tampered # None => ~ValidateBlockchainIntegrity(chain)

\* C3 (amended): changing any single field of a block behind the genesis
\* block, or the genesis block's hash when another block follows it, makes
\* verify_integrity return false; a change of any other genesis field, and
\* any change in a ledger holding only the genesis block, still verifies.
C3_TamperDetectedBehindGenesis ==
    /\ tampered # None =>
          (ValidateBlockchainIntegrity(chain) <=> ~TamperDetectable)
    /\ (tampered # None /\ ret.op = "validate") =>
          (ret.value <=> ~TamperDetectable)

\* C3 witness: a field of the middle block was changed and the check then
\* answered false
C3_Witness ==
    /\ tampered # None
    /\ tampered.pos = 2
    /\ Len(chain) >= 3
    /\ ret.op = "validate"
    /\ ret.value = FALSE

\* C4: on a ledger changed only by appends, verify_integrity answers true
\* after every append and for a ledger of 0 or 1 blocks, and it leaves the
\* ledger as it found it.
C4_VerifyTrueOnUntampered ==
    /\ ValidateBlockchainIntegrity(chain)
    /\ ret.op = "validate" => (ret.value = TRUE /\ Len(chain) = ret.before)

\* C4 witness: the check ran on a ledger holding two appended blocks
C4_Witness ==
    /\ ret.op = "validate"
    /\ ret.value = TRUE
    /\ Len(chain) >= 3
    /\ \A i \in 2..Len(chain) : chain[i].nonce > 0

AllDone == \A t \in Threads : thr[t].pc = "done"

Succeeded == {t \in Threads : thr[t].pc = "done" /\ thr[t].ok}

\* C5 (as claimed): when N callers run append concurrently, the ledger ends
\* with exactly N new blocks whose indices are contiguous and strictly
\* increasing, no two blocks sharing an index.
C5_ConcurrentIndicesContiguous ==
    AllDone =>
        /\ Len(chain) = 1 + Cardinality(Succeeded)
        /\ \A i \in 1..Len(chain) : chain[i].index = i - 1

\* C6 (as claimed): under any interleaving of concurrent appends each
\* block's previous_hash is the hash of the block stored right before it,
\* so verify_integrity returns true once all appends completed.
C6_ConcurrentLinkagePreserved ==
    AllDone =>
        /\ \A i \in 2..Len(chain) : chain[i].previous_hash = chain[i - 1].hash
        /\ ValidateBlockchainIntegrity(chain)

\* C7 (as claimed): the proof-of-work search is bounded: an append whose
\* search needs MiningBound iterations or more ends with a MiningTimeout
\* failure and leaves the ledger alone, so no block gets sealed with a
\* nonce at or beyond the bound.
C7_MiningIsBounded ==
    AppendSucceeded => chain[Len(chain)].nonce < MiningBound

\* C8: an append on an empty ledger first creates the genesis block (index
\* 0, previous_hash "0") and stores the payload block at index 1 linked to
\* the genesis hash; an append on a non-empty ledger stores its block at
\* the index equal to the ledger length before the call.
C8_AppendIndex ==
    AppendSucceeded =>
        LET n == Len(chain)
        IN /\ chain[n].index = n - 1
           /\ ret.value = BlockIdOf(n - 1, chain[n].timestamp)
           /\ IF ret.before = 0
              THEN /\ n = 2
                   /\ chain[1].index = 0
                   /\ chain[1].previous_hash = StrZero
                   /\ chain[1].data.type = "genesis"
                   /\ chain[2].index = 1
                   /\ chain[2].previous_hash = chain[1].hash
              ELSE /\ n = ret.before + 1
                   /\ chain[n].index = ret.before

\* C8 witness: an append found the ledger empty
C8_Witness ==
    /\ AppendSucceeded
    /\ ret.before = 0
    /\ Len(chain) = 2

\* every block of the ledger is still there, unchanged, after the step
GrowsOnly ==
    /\ Len(chain') >= Len(chain)
    /\ \A i \in 1..Len(chain) : chain'[i] = chain[i]

\* C9: absent a reset the ledger only grows: no operation removes a block
\* or changes a field of a sealed block, and the length never decreases.
C9_LedgerOnlyGrows == [][Reset \/ GrowsOnly]_vars

\* C9 witness: the read-only operations ran on a ledger of three blocks
C9_Witness ==
    /\ Len(chain) >= 3
    /\ ret.op \in {"statistics", "history", "get_block", "execute", "validate"}
    /\ scb # None

\* C10: the id returned by a successful append is BLOCK_<index>_<floor(
\* timestamp)> of the block just appended, and get_block on that id returns
\* exactly that block, whatever was appended before and after it.
C10_IdRoundTrip ==
    \A r \in issued :
        /\ r.id = <<"BLOCK", "_">> \o Dec(r.block.index) \o <<"_">>
                     \o Dec(r.block.timestamp \div TicksPerSec)
        /\ r.block.data = r.data
        /\ GetBlockById(chain, r.id) = r.block

\* C10 witness: two blocks appended within the same second are both found
C10_Witness ==
    /\ Cardinality(issued) >= 2
    /\ \E r1, r2 \in issued :
          /\ r1.block.index < r2.block.index
          /\ IntOf(r1.block.timestamp) = IntOf(r2.block.timestamp)
          /\ GetBlockById(chain, r1.id) = r1.block
          /\ GetBlockById(chain, r2.id) = r2.block
    /\ ret.op = "get_block"
    /\ ret.value # None


\* ------------------------------------------ statistics over any ledger
\* verification records whose company_name was not validated by the caller
OddVerificationInputs ==
    { [company_name |-> " acme ", claim |-> <<"green">>, verification_score |-> 50],
      [company_name |-> NotAString, claim |-> <<"green">>, verification_score |-> 50] }

\* add_verification_to_blockchain, called with such a record
AddOddVerification ==
    \E v \in OddVerificationInputs :
        AddToBlockchain("add_verification", VerificationRaises(v),
                        IF VerificationRaises(v) THEN EmptyDict
                        ELSE VerificationBlockData(v, now))

NextStats ==
    \/ Tick
    \/ AddVerification
    \/ AddOddVerification
    \/ AddClaimAnalysis
    \/ GetStatistics

\* the ledger functions called directly, with records of any content
SpecStats == Init /\ [][NextStats]_vars

\* --------------------------------- contract executions beside the ledger
NextRequest ==
    \/ Tick
    \/ ExecuteContract
    \/ AddVerification

\* the routes that execute a contract and those that append to the ledger
\* serve requests in any order
SpecRequest == InitContract /\ [][NextRequest]_vars

\* ------------------------------------- request threads inside execute
\* the contract the concurrent requests execute: the default detector
SharedContractId == ContractIdOf("greenwashing_detector", 0)

SharedCalls == {call \in ContractCalls : call.type = "greenwashing_detector"}

\* lines 45-64: state = ACTIVE, the evaluator, the gas of the result; an
\* exception goes to lines 87-95
XBegin(t) ==
    /\ thr[t].pc = "idle"
    /\ \E call \in SharedCalls :
         LET c == scb.contracts[SharedContractId]
             result == Evaluate(c, call.inputs, call.context, now)
         IN IF HasRaised(result)
            THEN /\ scb' = [scb EXCEPT !.contracts[SharedContractId].state = "failed"]
                 /\ thr' = [thr EXCEPT ![t] =
                              [pc |-> "done", ok |-> FALSE,
                               return |-> [success |-> FALSE,
                                           contract_id |-> c.contract_id,
                                           error |-> result.error,
                                           gas_used |-> FailureGas]]]
            ELSE /\ scb' = [scb EXCEPT !.contracts[SharedContractId].state = "active"]
                 /\ thr' = [thr EXCEPT ![t] =
                              [pc |-> "load_count", inputs |-> call.inputs,
                               result |-> result,
                               gas_used |-> CalculateGasUsage(result, 0),
                               count |-> 0, total |-> 0]]
    /\ UNCHANGED <<chain, now, ret, issued, tampered, resetPc>>

\* lines 65-66: state = EXECUTED; the read of self.executed_count += 1
XLoadCount(t) ==
    /\ thr[t].pc = "load_count"
    /\ scb' = [scb EXCEPT !.contracts[SharedContractId].state = "executed"]
    /\ thr' = [thr EXCEPT ![t].pc = "store_count",
                          ![t].count = scb.contracts[SharedContractId].executed_count]
    /\ UNCHANGED <<chain, now, ret, issued, tampered, resetPc>>

\* line 66: the write of self.executed_count += 1
XStoreCount(t) ==
    /\ thr[t].pc = "store_count"
    /\ scb' = [scb EXCEPT !.contracts[SharedContractId].executed_count =
                              thr[t].count + 1]
    /\ thr' = [thr EXCEPT ![t].pc = "load_gas"]
    /\ UNCHANGED <<chain, now, ret, issued, tampered, resetPc>>

\* line 67: the read of self.total_gas_used += gas_used
XLoadGas(t) ==
    /\ thr[t].pc = "load_gas"
    /\ thr' = [thr EXCEPT ![t].pc = "store_gas",
                          ![t].total = scb.contracts[SharedContractId].total_gas_used]
    /\ UNCHANGED <<chain, now, scb, ret, issued, tampered, resetPc>>

\* line 67: the write of self.total_gas_used += gas_used
XStoreGas(t) ==
    /\ thr[t].pc = "store_gas"
    /\ scb' = [scb EXCEPT !.contracts[SharedContractId].total_gas_used =
                              thr[t].total + thr[t].gas_used]
    /\ thr' = [thr EXCEPT ![t].pc = "record"]
    /\ UNCHANGED <<chain, now, ret, issued, tampered, resetPc>>

\* lines 68-85: the record, with the executed_count of this moment in its id,
\* appended to the history; the return
XRecord(t) ==
    /\ thr[t].pc = "record"
    /\ LET c == scb.contracts[SharedContractId]
           execution_record ==
               [execution_id |-> ExecutionIdOf(now, c.executed_count),
                inputs |-> thr[t].inputs,
                result |-> thr[t].result,
                gas_used |-> thr[t].gas_used,
                execution_time |-> 0]
       IN /\ scb' = [scb EXCEPT !.contracts[SharedContractId].execution_history =
                                    Append(@, execution_record)]
          /\ thr' = [thr EXCEPT ![t] =
                       [pc |-> "done", ok |-> TRUE,
                        return |-> [success |-> TRUE,
                                    contract_id |-> c.contract_id,
                                    execution_id |-> execution_record.execution_id,
                                    result |-> thr[t].result,
                                    gas_used |-> thr[t].gas_used,
                                    execution_time |-> 0]]]
    /\ UNCHANGED <<chain, now, ret, issued, tampered, resetPc>>

NextExec ==
    \/ Tick
    \/ \E t \in Threads : XBegin(t)
    \/ \E t \in Threads : XLoadCount(t)
    \/ \E t \in Threads : XStoreCount(t)
    \/ \E t \in Threads : XLoadGas(t)
    \/ \E t \in Threads : XStoreGas(t)
    \/ \E t \in Threads : XRecord(t)

\* request threads interleave inside execute of one contract (no lock)
SpecExec == InitContract /\ [][NextExec]_vars

\* ======================================================= contract claims
\* a step in which execute on a contract of the registry returned success
ExecSuccessStep ==
    /\ ret'.op = "execute_contract"
    /\ ret'.value.success
    /\ scb' # scb

\* C11: a successful execute leaves the contract Executed, adds exactly 1 to
\* executed_count, returns gas_used = 100 + len(str(result)) // 10 +
\* floor(execution_time * 50) and adds it to total_gas_used, appends exactly one
\* record carrying the returned execution_id, the inputs, the result and the
\* gas_used, and returns success with the contract's id.
C11_SuccessfulExecuteBookkeeping ==
    [][ExecSuccessStep =>
         LET id == ret'.id
             b == scb.contracts[id]
             c == scb'.contracts[id]
             r == ret'.value
             rec == c.execution_history[Len(c.execution_history)]
         IN /\ c.state = "executed"
            /\ c.executed_count = b.executed_count + 1
            /\ r.gas_used = 100 + (ReprLen(r.result) \div 10)
                            + ((r.execution_time * 50) \div TicksPerSec)
            /\ c.total_gas_used = b.total_gas_used + r.gas_used
            /\ c.execution_history = Append(b.execution_history, rec)
            /\ rec.execution_id = r.execution_id
            /\ rec.inputs = ret'.call.inputs
            /\ rec.result = r.result
            /\ rec.gas_used = r.gas_used
            /\ r.contract_id = c.contract_id
            /\ c.contract_id = id]_vars

\* a contract's second successful execution, one that took measurable time
C11_Witness ==
    /\ ret.op = "execute_contract"
    /\ ret.value.success
    /\ ret.d > 0
    /\ scb.contracts[ret.id].executed_count = 2
    /\ Len(scb.contracts[ret.id].execution_history) = 2

\* the contract an execute of the last call ran on, as the call left it
ExecutedContract == IF ret.op = "execute_direct" THEN ret.self ELSE scb.contracts[ret.id]

\* C12: execute never raises; whenever the variant logic fails (a type without
\* evaluator included) the contract is left Failed and the call returns
\* {success: false, contract_id, error, gas_used: 50}.
C12_ExecuteNeverRaises ==
    ret.op \in {"execute_contract", "execute_direct"} =>
        LET c == ExecutedContract
            r == ret.value
            e == Evaluate(c, ret.call.inputs, ret.call.context, now)
        IN /\ ~HasRaised(r)
           /\ "success" \in DOMAIN r
           /\ HasRaised(e) =>
                /\ c.state = "failed"
                /\ r = [success |-> FALSE, contract_id |-> c.contract_id,
                        error |-> e.error, gas_used |-> 50]

\* a contract of a type that no branch handles was executed
C12_Witness ==
    /\ ret.op = "execute_direct"
    /\ ret.call.type \in UnknownTypes
    /\ ret.self.state = "failed"
    /\ ~ret.value.success
    /\ ret.value.error = "ValueError"

\* inputs that miss fields the variant reads, or carry a value outside the
\* variant's tables or of the wrong type
MalformedInputs(call) ==
    \/ call.inputs = EmptyDict
    \/ BadNumber \in {call.inputs[k] : k \in DOMAIN call.inputs \ {"claim"}}
    \/ /\ call.type = "penalty_system"
       /\ Get(call.inputs, "violation_severity", "") \notin
              {"LOW", "MEDIUM", "HIGH", "CRITICAL"}

\* C13: an execute with missing or malformed input fields always leaves the
\* contract Failed and returns {success: false, error}, never a success.
C13_MalformedInputsFail ==
    (ret.op = "execute_contract" /\ MalformedInputs(ret.call)) =>
        /\ ExecutedContract.state = "failed"
        /\ ~ret.value.success
        /\ "error" \in DOMAIN ret.value

\* C14: total_executions of the statistics is the sum of executed_count over
\* the contracts of the registry, and without a reset no deploy or execute
\* makes it smaller than an earlier statistics call could report.
C14_TotalExecutionsMonotone ==
    [][/\ ret'.op = "contract_statistics" =>
            ret'.value.total_executions =
                SumOver(scb'.contracts, DOMAIN scb'.contracts, "executed_count")
       /\ TotalExecutions(scb') >= TotalExecutions(scb)]_vars

\* a step in which deploy_contract returned
DeployStep ==
    /\ ret'.op = "deploy"
    /\ <<ret, scb>>' # <<ret, scb>>

\* h2 is h1 with records appended
Extends(h2, h1) == Len(h2) >= Len(h1) /\ SubSeq(h2, 1, Len(h1)) = h1

\* C15: a deployed contract is never deleted or replaced: every id keeps
\* naming the same contract with its accumulated executed_count and history,
\* and every deploy adds exactly one contract (no id is returned twice).
C15_DeployedNeverReplaced ==
    [][/\ \A id \in DOMAIN scb.contracts :
            /\ id \in DOMAIN scb'.contracts
            /\ scb'.contracts[id].creator = scb.contracts[id].creator
            /\ scb'.contracts[id].parameters = scb.contracts[id].parameters
            /\ scb'.contracts[id].executed_count >= scb.contracts[id].executed_count
            /\ Extends(scb'.contracts[id].execution_history,
                       scb.contracts[id].execution_history)
       /\ DeployStep =>
            /\ Cardinality(DOMAIN scb'.contracts) = Cardinality(DOMAIN scb.contracts) + 1
            /\ ret'.value \notin DOMAIN scb.contracts]_vars

\* the type index points into the contract map, at a contract of that type
IndexInMap(reg) ==
    \A ty \in DOMAIN reg.contract_registry :
        /\ reg.contract_registry[ty] \in DOMAIN reg.contracts
        /\ reg.contracts[reg.contract_registry[ty]].contract_type = ty

\* C16: deploy(type, creator, parameters) stores under the returned id a
\* contract in state Pending with executed_count 0, total_gas_used 0 and empty
\* history and makes it the latest-of-type entry; the type index always points
\* at an id of the contract map, the most recently deployed of its type
\* (nothing but a deploy changes the index).
C16_DeployCreatesPending ==
    /\ [](IndexInMap(scb))
    /\ [][scb'.contract_registry # scb.contract_registry => DeployStep]_vars
    /\ [][DeployStep =>
            LET id == ret'.value
                c == scb'.contracts[id]
            IN /\ id \in DOMAIN scb'.contracts
               /\ c.contract_id = id
               /\ c.contract_type = ret'.call.type
               /\ c.creator = ret'.call.creator
               /\ c.parameters = ret'.call.parameters
               /\ c.state = "pending"
               /\ c.executed_count = 0
               /\ c.total_gas_used = 0
               /\ c.execution_history = <<>>
               /\ scb'.contract_registry[ret'.call.type] = id
               /\ \A i \in DOMAIN scb.contracts \ {id} :
                     scb'.contracts[i] = scb.contracts[i]]_vars

\* a second contract of a type was deployed and took over the type index,
\* the first one still being in the map with an execution of its own
C16_Witness ==
    /\ ret.op = "deploy"
    /\ scb.contract_registry[ret.call.type] = ret.value
    /\ scb.contracts[ret.value].state = "pending"
    /\ \E id \in DOMAIN scb.contracts \ {ret.value} :
          /\ scb.contracts[id].contract_type = ret.call.type
          /\ scb.contracts[id].executed_count > 0

RECURSIVE SumReturnedGas(_)
SumReturnedGas(T) ==
    IF T = {} THEN 0
    ELSE LET t == CHOOSE x \in T : TRUE
         IN thr[t].return.gas_used + SumReturnedGas(T \ {t})

\* C17: after concurrent executes of one contract have all returned,
\* executed_count is the number of successful calls, the history has that many
\* records, total_gas_used is the sum of their gas_used, and no two records
\* share an execution_id.
C17_ConcurrentCountersConsistent ==
    AllDone =>
        LET c == scb.contracts[SharedContractId]
            h == c.execution_history
        IN /\ c.executed_count = Cardinality(Succeeded)
           /\ Len(h) = Cardinality(Succeeded)
           /\ c.total_gas_used = SumReturnedGas(Succeeded)
           /\ \A i, j \in 1..Len(h) :
                 i # j => h[i].execution_id # h[j].execution_id

\* a step in which execute on a contract of the registry returned
ExecStep ==
    /\ ret'.op = "execute_contract"
    /\ <<ret, scb>>' # <<ret, scb>>

\* C18: an execute, failed or successful, changes only the invoked contract's
\* state, executed_count, total_gas_used and execution_history: no other
\* contract, neither registry index, and not the ledger (no block is written);
\* and its result is the one a fresh contract of the same type with other
\* parameters returns for the same inputs and context.
C18_ExecuteFrame ==
    [][ExecStep =>
         LET id == ret'.id
             b == scb.contracts[id]
             c == scb'.contracts[id]
         IN /\ chain' = chain
            /\ issued' = issued
            /\ DOMAIN scb'.contracts = DOMAIN scb.contracts
            /\ scb'.contract_registry = scb.contract_registry
            /\ \A i \in DOMAIN scb.contracts \ {id} :
                  scb'.contracts[i] = scb.contracts[i]
            /\ c = [b EXCEPT !.state = c.state,
                             !.executed_count = c.executed_count,
                             !.total_gas_used = c.total_gas_used,
                             !.execution_history = c.execution_history]
            /\ ret'.value.success =>
                  ret'.value.result =
                      Evaluate(NewContract(id, b.contract_type, "anyone", EmptyDict, 0),
                               ret'.call.inputs, ret'.call.context, now)]_vars

\* a contract executed for the second time, another one having failed, while
\* the ledger holds an appended block
C18_Witness ==
    /\ ret.op = "execute_contract"
    /\ ret.value.success
    /\ scb.contracts[ret.id].executed_count = 2
    /\ Len(chain) > 1
    /\ \E i \in DOMAIN scb.contracts \ {ret.id} : scb.contracts[i].state = "failed"

\* a step in which one of the two add_* functions returned
AddStep ==
    /\ ret'.op \in AppendOps
    /\ <<ret, chain>>' # <<ret, chain>>

StoredNames ==
    {Get(chain[i].data, "company_name", "") :
        i \in {j \in 1..Len(chain) : chain[j].data.type = "verification"}}

Placeholders == {"unknown", "", "none", "anonymous"}

\* the counts that do not depend on the names
CountsFromLedger(st) ==
    /\ st.total_blocks = Len(chain)
    /\ st.verification_blocks =
           Cardinality({i \in 1..Len(chain) : chain[i].data.type = "verification"})
    /\ st.claim_analysis_blocks =
           Cardinality({i \in 1..Len(chain) : chain[i].data.type = "claim_analysis"})
    /\ st.total_blocks = 1 + st.verification_blocks + st.claim_analysis_blocks

\* C20 (as claimed): at every call the statistics are those of the current
\* ledger: total_blocks is its length, the per-type counts are the numbers of
\* blocks of each payload type (total = 1 + verification + claim_analysis),
\* companies_on_blockchain is the number of distinct lowercased
\* non-placeholder names, and the validity is verify_integrity() of the ledger.
C20_StatisticsFromLedger ==
    ret.op = "statistics" =>
        /\ CountsFromLedger(ret.value)
        /\ ret.value.companies_on_blockchain =
               Cardinality({Lower(n) : n \in StoredNames} \ Placeholders)
        /\ ret.value.valid = ValidateBlockchainIntegrity(chain)

\* C20 (amended): the same, with the names stripped of surrounding whitespace
\* before they are lowercased and compared with the placeholders; and when a
\* stored company_name is not a string the call returns its failure dict, all
\* counts 0.
C20_StatisticsStripped ==
    ret.op = "statistics" =>
        IF NotAString \in StoredNames
        THEN /\ ret.value.network_status = "error"
             /\ ret.value.total_blocks = 0
             /\ ret.value.verification_blocks = 0
             /\ ret.value.claim_analysis_blocks = 0
             /\ ret.value.companies_on_blockchain = 0
        ELSE /\ ret.value.network_status = "operational"
             /\ CountsFromLedger(ret.value)
             /\ ret.value.companies_on_blockchain =
                    Cardinality({Lower(Strip(n)) : n \in StoredNames} \ Placeholders)
             /\ ret.value.valid = ValidateBlockchainIntegrity(chain)

\* statistics over a ledger holding one company under two spellings
C20_Witness ==
    /\ ret.op = "statistics"
    /\ ret.value.network_status = "operational"
    /\ ret.value.verification_blocks = 2
    /\ ret.value.companies_on_blockchain = 1
    /\ " acme " \in StoredNames

\* ==================================================== evaluator claims
\* A route receives one request and hands its inputs and context to the
\* evaluator of one contract type; `ret` first holds the request, then what
\* the evaluator returned for it.
\* every score and confidence; and every company_history of a violation, a
\* pass and a record without a score
GreenwashingCalls ==
    { [type |-> "greenwashing_detector",
       inputs |-> [company_name |-> "Acme", verification_score |-> s,
                   confidence |-> c],
       context |-> EmptyDict] : s \in 0..MaxPercent, c \in 0..MaxPercent }
    \cup
    { [type |-> "greenwashing_detector",
       inputs |-> [company_name |-> "Acme", verification_score |-> sc[1],
                   confidence |-> sc[2]],
       context |-> [company_history |-> h]] :
         sc \in {<<15, 85>>, <<70, 90>>},
         h \in UNION {[1..n -> {[verification_score |-> 30],
                                [verification_score |-> 50], EmptyDict}] :
                         n \in 0..MaxHistory} }

InitRequest(calls) ==
    /\ now = 0
    /\ chain = InitializeSimpleBlockchain(<<>>, 0)
    /\ scb = NewSmartContractBlockchain(0)
    /\ ret \in {[op |-> "request", call |-> c] : c \in calls}
    /\ issued = {}
    /\ tampered = None
    /\ resetPc = "idle"
    /\ thr = [t \in Threads |-> IdleThread]

\* result = self._<type>_contract(inputs, context), by the type of the contract
EvaluateRequest ==
    /\ ret.op = "request"
    /\ ret' = [op |-> "evaluate", call |-> ret.call,
               value |-> Dispatch(ret.call.type, ret.call.inputs,
                                  ret.call.context, now)]
    /\ UNCHANGED <<chain, now, scb, issued, tampered, resetPc, thr>>

SpecGreenwashing == InitRequest(GreenwashingCalls) /\ [][EvaluateRequest]_vars

\* the evaluator of a type returned for a request
Evaluated(type) == ret.op = "evaluate" /\ ret.call.type = type

Detected == Evaluated("greenwashing_detector")

\* the actions and penalty of the call before any repeat-offender addition
BaseActions ==
    LET a == ret.value.actions_triggered
    IN IF a # <<>> /\ a[Len(a)] = "REPEAT_OFFENDER_FLAG"
       THEN SubSeq(a, 1, Len(a) - 1) ELSE a

BasePenaltyPoints ==
    LET a == ret.value.actions_triggered
    IN IF a # <<>> /\ a[Len(a)] = "REPEAT_OFFENDER_FLAG"
       THEN ret.value.penalty_points - 200 ELSE ret.value.penalty_points

\* the tier a score and a confidence select: its actions and its penalty
TierOf(score, confidence) ==
    IF score < 20 /\ confidence > 80
    THEN <<{"IMMEDIATE_FLAG", "COMMUNITY_ALERT", "REGULATORY_NOTIFICATION"}, 100>>
    ELSE IF score < 40 /\ confidence > 60
    THEN <<{"HIGH_RISK_FLAG", "REQUIRE_EVIDENCE"}, 50>>
    ELSE IF score < 60
    THEN <<{"MODERATE_RISK_FLAG", "REQUEST_CLARIFICATION"}, 25>>
    ELSE <<{"APPROVED"}, 0>>

Range(s) == {s[i] : i \in DOMAIN s}

\* C21: for every score and confidence in 0..100 the detector selects exactly
\* one tier: score<20 and confidence>80 gives IMMEDIATE_FLAG, COMMUNITY_ALERT,
\* REGULATORY_NOTIFICATION and penalty 100; else score<40 and confidence>60
\* gives HIGH_RISK_FLAG, REQUIRE_EVIDENCE and 50; else score<60 gives
\* MODERATE_RISK_FLAG, REQUEST_CLARIFICATION and 25; otherwise APPROVED and 0
\* (before any repeat-offender addition).
C21_ExactlyOneTier ==
    Detected =>
        LET t == TierOf(ret.call.inputs.verification_score,
                        ret.call.inputs.confidence)
        IN /\ Range(BaseActions) = t[1]
           /\ Len(BaseActions) = Cardinality(t[1])
           /\ BasePenaltyPoints = t[2]

\* a call on the second tier's edge: score 39 with confidence 61
C21_Witness ==
    /\ Detected
    /\ ret.call.inputs.verification_score = 39
    /\ ret.call.inputs.confidence = 61
    /\ ret.value.penalty_points = 50

\* how many of the last five records of a history carry a score below 40
RecentViolations(h) ==
    Cardinality({i \in DOMAIN h : /\ i > Len(h) - 5
                                  /\ "verification_score" \in DOMAIN h[i]
                                  /\ h[i].verification_score < 40})

RepeatFlagged ==
    LET a == ret.value.actions_triggered
    IN a # <<>> /\ a[Len(a)] = "REPEAT_OFFENDER_FLAG"

\* C22: the detector adds REPEAT_OFFENDER_FLAG and 200 penalty points exactly
\* when at least 2 of the last 5 company_history records have a score below
\* 40, whatever the length of the history (2 records included).
C22_RepeatOffenderExactly ==
    Detected =>
        LET h == Get(ret.call.context, "company_history", <<>>)
            t == TierOf(ret.call.inputs.verification_score,
                        ret.call.inputs.confidence)
        IN /\ RepeatFlagged <=> RecentViolations(h) >= 2
           /\ ret.value.penalty_points =
                  t[2] + (IF RecentViolations(h) >= 2 THEN 200 ELSE 0)

\* C23: the risk label follows the same cutoffs as the action tier: for every
\* score and confidence risk_assessment is CRITICAL exactly when the
\* IMMEDIATE_FLAG tier is chosen, HIGH exactly when the HIGH_RISK_FLAG tier
\* is, MODERATE exactly when the MODERATE_RISK_FLAG tier is, and LOW exactly
\* when APPROVED is.
C23_RiskLabelFollowsTier ==
    Detected =>
        LET chosen == Range(BaseActions)
            label == ret.value.risk_assessment
        IN /\ label = "CRITICAL" <=> "IMMEDIATE_FLAG" \in chosen
           /\ label = "HIGH" <=> "HIGH_RISK_FLAG" \in chosen
           /\ label = "MODERATE" <=> "MODERATE_RISK_FLAG" \in chosen
           /\ label = "LOW" <=> "APPROVED" \in chosen

\* ------------------------------------------------------ penalty system
\* requests with and without a company name, labels outside the tables included
PenaltyCalls ==
    { [type |-> "penalty_system",
       inputs |-> [company_name |-> "Acme", violation_severity |-> sv,
                   repeat_offender |-> ro, impact_scale |-> sc],
       context |-> EmptyDict] :
         sv \in {"LOW", "MEDIUM", "HIGH", "CRITICAL", "SEVERE"}, ro \in BOOLEAN,
         sc \in {"LOCAL", "REGIONAL", "NATIONAL", "GLOBAL", "PLANETARY"} }
    \cup
    { [type |-> "penalty_system",
       inputs |-> [violation_severity |-> sv, repeat_offender |-> ro,
                   impact_scale |-> sc],
       context |-> EmptyDict] :
         sv \in {"LOW", "MEDIUM", "HIGH", "CRITICAL"}, ro \in BOOLEAN,
         sc \in {"LOCAL", "REGIONAL", "NATIONAL", "GLOBAL"} }

SpecPenalty == InitRequest(PenaltyCalls) /\ [][EvaluateRequest]_vars

\* base[severity] * (2 if repeat_offender else 1) * multiplier[impact_scale],
\* truncated; the multipliers are written in tenths
ExpectedPenalty(severity, repeat, scale) ==
    LET base == CASE severity = "LOW" -> 10
                  [] severity = "MEDIUM" -> 50
                  [] severity = "HIGH" -> 200
                  [] severity = "CRITICAL" -> 500
        tenths == CASE scale = "LOCAL" -> 10
                    [] scale = "REGIONAL" -> 15
                    [] scale = "NATIONAL" -> 20
                    [] scale = "GLOBAL" -> 30
    IN (base * (IF repeat THEN 2 ELSE 1) * tenths) \div 10

\* the fixed consequence set of each threshold
ConsequenceTier(points) ==
    IF points >= 1000
    THEN {"PLATFORM_BAN", "REGULATORY_REFERRAL", "PUBLIC_WARNING_ISSUED"}
    ELSE IF points >= 500
    THEN {"VERIFICATION_REQUIRED_FOR_ALL_CLAIMS", "MONTHLY_MONITORING", "PUBLIC_NOTICE"}
    ELSE IF points >= 200
    THEN {"ENHANCED_SCRUTINY", "QUARTERLY_REVIEW", "WARNING_ISSUED"}
    ELSE IF points >= 50
    THEN {"FORMAL_WARNING", "REQUIRED_TRAINING"}
    ELSE {}

\* C24: for the severities and impact scales of the tables, penalty_points =
\* trunc(base[severity] * (2 if repeat_offender else 1) * multiplier[scale]);
\* the consequences are the one fixed set of the highest threshold reached
\* among 1000 (with PLATFORM_BAN), 500, 200 and 50, and empty below 50;
\* rehabilitation_required iff points >= 200; appeal_allowed iff points < 1000.
C24_PenaltyPoints ==
    (/\ Evaluated("penalty_system")
     /\ ret.call.inputs.violation_severity \in {"LOW", "MEDIUM", "HIGH", "CRITICAL"}
     /\ ret.call.inputs.impact_scale \in {"LOCAL", "REGIONAL", "NATIONAL", "GLOBAL"}) =>
        LET in == ret.call.inputs
            points == ret.value.penalty_points
            cons == ret.value.consequences
        IN /\ points = ExpectedPenalty(in.violation_severity, in.repeat_offender,
                                       in.impact_scale)
           /\ Range(cons) = ConsequenceTier(points)
           /\ Len(cons) = Cardinality(ConsequenceTier(points))
           /\ points >= 1000 <=> "PLATFORM_BAN" \in Range(cons)
           /\ points < 50 <=> cons = <<>>
           /\ ret.value.rehabilitation_required <=> points >= 200
           /\ ret.value.appeal_allowed <=> points < 1000

\* a repeated MEDIUM violation on REGIONAL scale: 50 * 2 * 1.5 = 150
C24_Witness ==
    /\ Evaluated("penalty_system")
    /\ ret.call.inputs.violation_severity = "MEDIUM"
    /\ ret.call.inputs.repeat_offender
    /\ ret.call.inputs.impact_scale = "REGIONAL"
    /\ ret.value.penalty_points = 150
    /\ ~ret.value.rehabilitation_required

\* ----------------------------------------------- sustainability rewards
RewardsCalls ==
    { [type |-> "sustainability_rewards",
       inputs |-> [company_name |-> "Acme", verification_score |-> s,
                   transparency_level |-> tl,
                   certifications |-> [i \in 1..n |-> "ISO14001"]],
       context |-> EmptyDict] :
         s \in 0..MaxPercent, tl \in 0..MaxPercent, n \in 0..MaxCerts }

SpecRewards == InitRequest(RewardsCalls) /\ [][EvaluateRequest]_vars

\* the tier and the badge of a number of points
RewardTier(points) ==
    IF points >= 900 THEN <<"PLATINUM", "SUSTAINABILITY_CHAMPION">>
    ELSE IF points >= 700 THEN <<"GOLD", "SUSTAINABILITY_LEADER">>
    ELSE IF points >= 500 THEN <<"SILVER", "SUSTAINABILITY_ADVOCATE">>
    ELSE IF points >= 300 THEN <<"BRONZE", "SUSTAINABILITY_BEGINNER">>
    ELSE <<"NONE", "NO_BADGE">>

\* C25: points = score + transparency_level*20 + 50*len(certifications), mapped
\* to exactly one tier and badge (>=900 PLATINUM/SUSTAINABILITY_CHAMPION, >=700
\* GOLD/SUSTAINABILITY_LEADER, >=500 SILVER/SUSTAINABILITY_ADVOCATE, >=300
\* BRONZE/SUSTAINABILITY_BEGINNER, else NONE/NO_BADGE); eligible_for_promotion
\* holds exactly when points >= 500, that is for SILVER, GOLD and PLATINUM.
C25_RewardPoints ==
    Evaluated("sustainability_rewards") =>
        LET in == ret.call.inputs
            points == ret.value.points_awarded
        IN /\ points = in.verification_score + in.transparency_level * 20
                       + 50 * Len(in.certifications)
           /\ <<ret.value.tier, ret.value.badge_earned>> = RewardTier(points)
           /\ ret.value.eligible_for_promotion <=> points >= 500
           /\ ret.value.eligible_for_promotion <=>
                  ret.value.tier \in {"SILVER", "GOLD", "PLATINUM"}

\* SILVER reached only through the certifications: 80 + 16*20 + 2*50 = 500
C25_Witness ==
    /\ Evaluated("sustainability_rewards")
    /\ ret.call.inputs.verification_score = 80
    /\ ret.call.inputs.transparency_level = 16
    /\ Len(ret.call.inputs.certifications) = 2
    /\ ret.value.tier = "SILVER"
    /\ ret.value.eligible_for_promotion

\* --------------------------------------------------- automatic flagging
\* every claim of up to MaxClaimTokens of these words
FlaggingCalls ==
    { [type |-> "automatic_flagging",
       inputs |-> [company_name |-> "Acme", claim |-> c], context |-> EmptyDict] :
         c \in UNION {[1..n -> {"100%", "natural", "completely", "eco-friendly",
                                "Totally", "Green", "clean", "we"}] :
                         n \in 0..MaxClaimTokens} }

SpecFlagging == InitRequest(FlaggingCalls) /\ [][EvaluateRequest]_vars

\* how many phrases of a list occur in the lowercased claim
Occurring(claim, phrases) ==
    Cardinality({i \in DOMAIN phrases : Contains(LowerText(claim), phrases[i])})

\* C26: risk = 30 per matched red-flag phrase + 40 if at least 3 vague terms
\* occur (flag EXCESSIVE_VAGUE_LANGUAGE) + 50 if at least 2 absolute terms occur
\* (flag ABSOLUTE_CLAIMS_WITHOUT_PROOF); it is mapped to exactly one of
\* IMMEDIATE_SUSPENSION/CRITICAL (>=100), REQUIRE_IMMEDIATE_VERIFICATION/HIGH
\* (>=70), REQUEST_EVIDENCE/MEDIUM (>=40), MONITOR/LOW; requires_manual_review
\* holds exactly when risk >= 70.
C26_FlaggingRisk ==
    Evaluated("automatic_flagging") =>
        LET claim == ret.call.inputs.claim
            vague == Occurring(claim, VagueTerms) >= 3
            absolute == Occurring(claim, AbsoluteTerms) >= 2
            risk == ret.value.risk_score
            flags == Range(ret.value.flags_triggered)
        IN /\ risk = 30 * Occurring(claim, RedFlagKeywords)
                     + (IF vague THEN 40 ELSE 0) + (IF absolute THEN 50 ELSE 0)
           /\ <<"EXCESSIVE_VAGUE_LANGUAGE">> \in flags <=> vague
           /\ <<"ABSOLUTE_CLAIMS_WITHOUT_PROOF">> \in flags <=> absolute
           /\ <<ret.value.recommended_action, ret.value.priority>> =
                  (IF risk >= 100 THEN <<"IMMEDIATE_SUSPENSION", "CRITICAL">>
                   ELSE IF risk >= 70 THEN <<"REQUIRE_IMMEDIATE_VERIFICATION", "HIGH">>
                   ELSE IF risk >= 40 THEN <<"REQUEST_EVIDENCE", "MEDIUM">>
                   ELSE <<"MONITOR", "LOW">>)
           /\ ret.value.requires_manual_review <=> risk >= 70

\* one red-flag phrase and three vague terms, written with capitals: risk 70
C26_Witness ==
    /\ Evaluated("automatic_flagging")
    /\ ret.call.inputs.claim = <<"Totally", "Green", "natural", "clean">>
    /\ ret.value.risk_score = 70
    /\ ret.value.priority = "HIGH"
    /\ ret.value.requires_manual_review

\* --------------------------------------------------- verification bounty
\* every quality, complexity and speed; and a verifier_history of every
\* number of earlier verifications
BountyCalls ==
    { [type |-> "verification_bounty",
       inputs |-> [verifier_email |-> "v@greenguard.com",
                   verification_quality |-> q, claim_complexity |-> c,
                   verification_speed |-> sp],
       context |-> EmptyDict] :
         q \in 0..MaxPercent, c \in {"SIMPLE", "MODERATE", "COMPLEX", "EXPERT"},
         sp \in {"INSTANT", "FAST", "NORMAL", "SLOW"} }
    \cup
    { [type |-> "verification_bounty",
       inputs |-> [verifier_email |-> "v@greenguard.com",
                   verification_quality |-> MaxPercent,
                   claim_complexity |-> "EXPERT",
                   verification_speed |-> "INSTANT"],
       context |-> [verifier_history |-> [i \in 1..n |-> [bounty |-> 10]]]] :
         n \in 0..MaxVerifications }

SpecBounty == InitRequest(BountyCalls) /\ [][EvaluateRequest]_vars

\* trunc(base[complexity] * quality/100 * speed_multiplier), the multipliers
\* written in tenths
ExactBounty(complexity, quality, speed) ==
    LET base == CASE complexity = "SIMPLE" -> 10
                  [] complexity = "MODERATE" -> 25
                  [] complexity = "COMPLEX" -> 50
                  [] complexity = "EXPERT" -> 100
        tenths == CASE speed = "INSTANT" -> 15
                    [] speed = "FAST" -> 12
                    [] speed = "NORMAL" -> 10
                    [] speed = "SLOW" -> 8
    IN (base * quality * tenths) \div 1000

\* the level and the bonus of a number of earlier verifications
LevelOf(n) ==
    IF n >= 100 THEN <<"EXPERT", 50>>
    ELSE IF n >= 50 THEN <<"ADVANCED", 25>>
    ELSE IF n >= 10 THEN <<"INTERMEDIATE", 10>>
    ELSE <<"BEGINNER", 0>>

\* C27: the bounty is trunc(base[complexity] * quality/100 * speed_multiplier)
\* plus the level bonus, the level given by the length of verifier_history
\* (>=100 EXPERT +50, >=50 ADVANCED +25, >=10 INTERMEDIATE +10, else BEGINNER
\* +0); for a quality in 0..100 it never exceeds 200.
C27_BountyAwarded ==
    Evaluated("verification_bounty") =>
        LET in == ret.call.inputs
            level == LevelOf(Len(Get(ret.call.context, "verifier_history", <<>>)))
        IN /\ ret.value.verifier_level = level[1]
           /\ ret.value.bounty_awarded =
                  ExactBounty(in.claim_complexity, in.verification_quality,
                              in.verification_speed) + level[2]
           /\ in.verification_quality <= 100 => ret.value.bounty_awarded <= 200

\* -------------------------------------------------- transparency tracker
\* disclosed_data with n areas filled in; every response time; histories of
\* a low score, a high score and a record without a score
TransparencyCalls ==
    LET areas == <<"emissions", "energy", "water", "waste", "supply_chain",
                   "materials", "biodiversity", "governance", "transport",
                   "packaging">>
        disclosed(n) == [a \in {areas[i] : i \in 1..n} |-> "published"]
    IN { [type |-> "transparency_tracker",
          inputs |-> [company_name |-> "Acme", disclosed_data |-> disclosed(n),
                      response_time_hours |-> rt, data_completeness |-> dc],
          context |-> EmptyDict] :
            n \in 0..MaxDisclosed, rt \in 0..MaxPercent, dc \in {0, 50, MaxPercent} }
       \cup
       { [type |-> "transparency_tracker",
          inputs |-> [company_name |-> "Acme", disclosed_data |-> disclosed(n),
                      response_time_hours |-> 150, data_completeness |-> 80],
          context |-> [transparency_history |-> h]] :
            n \in {0, 3},
            h \in UNION {[1..k -> {[transparency_score |-> 20],
                                   [transparency_score |-> 90], EmptyDict}] :
                            k \in 0..MaxHistory} }
       \cup
       { [type |-> "transparency_tracker",
          inputs |-> [company_name |-> "Acme", data_completeness |-> 80],
          context |-> EmptyDict] }

SpecTransparency == InitRequest(TransparencyCalls) /\ [][EvaluateRequest]_vars

\* v, in hundredths, is n/d rounded to two decimals (d > 0)
IsRounded(v, n, d) ==
    LET diff == d * v - 100 * n
    IN 2 * (IF diff < 0 THEN 0 - diff ELSE diff) <= d

\* the sum of the scores of the last up to 3 records of a history
RecentScores(h) ==
    LET from == IF Len(h) > 3 THEN Len(h) - 2 ELSE 1
        F[i \in (from - 1)..Len(h)] ==
            IF i < from THEN 0
            ELSE F[i - 1] + (IF "transparency_score" \in DOMAIN h[i]
                             THEN h[i].transparency_score ELSE 0)
    IN F[Len(h)]

\* C28: score = (10*len(disclosed_data) + max(0, 100 - response_time_hours)
\* + data_completeness) / 3, with exactly one recognition tier by it (>=90
\* CHAMPION, >=75 LEADER, >=60 PRACTITIONER, >=40 BEGINNER, else the lowest
\* tier); improvement is 0 whenever the history has fewer than 2 records and
\* otherwise the score minus the average of the last up to 3 history scores
\* (both numbers are returned rounded to two decimals).
C28_TransparencyScore ==
    (/\ Evaluated("transparency_tracker")
     /\ "disclosed_data" \in DOMAIN ret.call.inputs) =>
        LET in == ret.call.inputs
            late == 100 - in.response_time_hours
            sum == 10 * Cardinality(DOMAIN in.disclosed_data)
                   + (IF late > 0 THEN late ELSE 0) + in.data_completeness
            h == Get(ret.call.context, "transparency_history", <<>>)
            k == IF Len(h) > 3 THEN 3 ELSE Len(h)
        IN /\ IsRounded(ret.value.transparency_score, sum, 3)
           /\ ret.value.recognition_level =
                  (IF sum >= 3 * 90 THEN "TRANSPARENCY_CHAMPION"
                   ELSE IF sum >= 3 * 75 THEN "TRANSPARENCY_LEADER"
                   ELSE IF sum >= 3 * 60 THEN "TRANSPARENCY_PRACTITIONER"
                   ELSE IF sum >= 3 * 40 THEN "TRANSPARENCY_BEGINNER"
                   ELSE "TRANSPARENCY_NEEDED")
           /\ IF Len(h) < 2 THEN ret.value.improvement = 0
              ELSE IsRounded(ret.value.improvement,
                             k * sum - 3 * RecentScores(h), 3 * k)

\* a history of four records of which only the last three count:
\* score 110/3 = 36.67 against an average of 90, improvement -53.33
C28_Witness ==
    /\ Evaluated("transparency_tracker")
    /\ ret.call.context # EmptyDict
    /\ ret.call.context.transparency_history =
           <<[transparency_score |-> 20], [transparency_score |-> 90],
             [transparency_score |-> 90], [transparency_score |-> 90]>>
    /\ Cardinality(DOMAIN ret.call.inputs.disclosed_data) = 3
    /\ ret.value.transparency_score = 3667
    /\ ret.value.improvement = 0 - 5333

\* ================================================== bookkeeping claims
\* the sum of gas_used over the records of a history
RECURSIVE SumGas(_)
SumGas(h) == IF h = <<>> THEN 0 ELSE Head(h).gas_used + SumGas(Tail(h))

\* a contract's counters agree with its history
CountersMatchHistory(c) ==
    /\ c.executed_count = Len(c.execution_history)
    /\ c.total_gas_used = SumGas(c.execution_history)
    /\ \A i \in 1..Len(c.execution_history) : c.execution_history[i].gas_used >= 100
    /\ c.total_gas_used >= 100 * c.executed_count

\* C29: after any sequence of successful and failed executions of a contract
\* executed_count is the length of execution_history and total_gas_used the sum
\* of gas_used over its records (each at least 100, so total_gas_used >= 100 *
\* executed_count); a failed execution leaves executed_count, total_gas_used
\* and execution_history as they were and reports 50 gas that is not added.
C29_CountersMatchHistory ==
    /\ [](\A id \in DOMAIN scb.contracts : CountersMatchHistory(scb.contracts[id]))
    /\ [][(ret'.op = "execute_contract" /\ ~ret'.value.success) =>
            LET b == scb.contracts[ret'.id]
                c == scb'.contracts[ret'.id]
            IN /\ c.executed_count = b.executed_count
               /\ c.total_gas_used = b.total_gas_used
               /\ c.execution_history = b.execution_history
               /\ ret'.value.gas_used = 50]_vars

\* a failed execution of a contract that was executed once before
C29_Witness ==
    /\ ret.op = "execute_contract"
    /\ ~ret.value.success
    /\ scb.contracts[ret.id].state = "failed"
    /\ scb.contracts[ret.id].executed_count = 1
    /\ scb.contracts[ret.id].total_gas_used >= 100

\* ------------------------------- one request at a time inside execute
\* execute is entered only when no other call is inside it
NextSerial ==
    \/ Tick
    \/ \E t \in Threads : NoneInFlight /\ XBegin(t)
    \/ \E t \in Threads : XLoadCount(t)
    \/ \E t \in Threads : XStoreCount(t)
    \/ \E t \in Threads : XLoadGas(t)
    \/ \E t \in Threads : XStoreGas(t)
    \/ \E t \in Threads : XRecord(t)

\* the requests run execute on one contract one after the other, statement
\* by statement
SpecSerial == InitContract /\ [][NextSerial]_vars

SharedState == scb.contracts[SharedContractId].state

\* thread t returns from execute in this step
Returns(t) == thr[t].pc # "done" /\ thr'[t].pc = "done"

\* C30: a contract is Pending from deploy until its first execute; whenever no
\* execute call is in progress its state is Pending, Executed or Failed (never
\* Active or Suspended) and is the outcome of the most recent execute; Failed
\* is not terminal; so the active_contracts statistic is 0 whenever no
\* execution is in progress.
C30_ContractStateMachine ==
    /\ [](/\ SharedState = "pending" <=> \A t \in Threads : thr[t].pc = "idle"
          /\ \A id \in DOMAIN scb.contracts \ {SharedContractId} :
                scb.contracts[id].state = "pending"
          /\ SharedState # "suspended"
          /\ NoneInFlight =>
                /\ SharedState \in {"pending", "executed", "failed"}
                /\ GetContractStatistics(scb).active_contracts = 0)
    /\ [][\A t \in Threads :
            Returns(t) =>
                scb'.contracts[SharedContractId].state =
                    (IF thr'[t].ok THEN "executed" ELSE "failed")]_vars
    /\ [][scb'.contracts[SharedContractId].state # SharedState =>
            \E t \in Threads : thr'[t] # thr[t]]_vars

\* a failed execute followed by a successful one: the contract is Executed
C30_Witness ==
    /\ NoneInFlight
    /\ \E t \in Threads : thr[t].pc = "done" /\ ~thr[t].ok
    /\ \E t \in Threads : thr[t].pc = "done" /\ thr[t].ok
    /\ SharedState = "executed"

====
